---- MODULE Spec2Model ----
(***************************************************************************)
(* Model of the report pipeline of radreport-ai:                           *)
(*   - SupabaseClient.get_impression, the three-tier finding -> impression *)
(*     matcher, with the admin operations on the impression_lookup table   *)
(*     (src/utils/supabase_client.py);                                     *)
(*   - ClaudeClient.categorize_findings, the parse of the classifier's     *)
(*     answer (src/utils/claude_client.py);                                *)
(*   - ReportGenerator.generate_report (src/utils/report_generator.py).    *)
(*                                                                         *)
(* A Python str is a sequence of one-character strings, so that lower(),   *)
(* strip(), split(), `in` and startswith() are computed character by       *)
(* character.  Impression texts and technique texts are never inspected by *)
(* the code (only tested for truth), so they are TLA+ strings.             *)
(***************************************************************************)
EXTENDS Integers, Sequences, FiniteSets, TLC

VARIABLES
    impression_lookup,  \* table impression_lookup, in the order a select returns its rows
    m_op,               \* SpecMatch: the last operation on the table ("none", "add", "delete", "get")
    m_finding,          \* SpecMatch: argument finding of the last get_impression
    m_section,          \* SpecMatch: argument section_name of the last operation
    m_read_ok,          \* SpecMatch: whether the select of the last get_impression succeeded
    m_result,           \* SpecMatch: value returned by the last operation
    facilities_table,   \* table facilities
    facility_writes,    \* history: the admin operations on table facilities, each with
                        \*          whether a call of generate_report was in flight
    unmatched_findings, \* table unmatched_findings: the rows inserted by log_unmatched_finding
    use_claude_for_unmatched,   \* ReportGenerator.use_claude_for_unmatched
    pc,                 \* generate_report: where the call stands
    facility_name, study_type, sections_data, image_data,   \* generate_report: its arguments
    facilities,         \* generate_report: the list get_facilities returned
    facility,           \* generate_report: <<the facility found>>, <<>> for None
    section_idx,        \* generate_report: position of the loop over sections_data.items()
    report_sections,    \* generate_report: the lines of the report so far
    impressions,        \* generate_report: the impressions collected so far
    matched_findings,   \* generate_report: the findings that gave an impression
    default_findings,   \* generate_report: template["default_findings"] of the section
    modified_findings,  \* generate_report: the clone the findings are written to
    finding_lines,      \* generate_report: the lines of the normalized findings
    processed_finding_indexes,  \* generate_report: the lines filed by the direct match
    finding_idx,        \* generate_report: position of the loop over finding_lines
    categories,         \* generate_report: the items of the classifier's mapping still to apply
    returned,           \* generate_report: the lines of the text returned, <<>> before
    calls,              \* history: the calls generate_report made to its collaborators
    filed,              \* history: the writes modified_findings[category] = finding
    classified,         \* history: the answers of the classifier, as texts
    looked_up,          \* history: for each call of get_impression, what it returned,
                        \*          whether its select succeeded, and what
                        \*          generate_impression returned for the finding
    normalized_lines,   \* history: finding_lines of each section that was normalized
    analysis,           \* history: the call of analyze_image: the outcomes of its
                        \*          requests and the text it returned
    api_pc,             \* _make_api_request: where the call stands
    retry_count,        \* _make_api_request: retry_count
    attempts,           \* history: the outcomes of the requests.post of the call
    slept,              \* history: the seconds of each time.sleep of the call
    api_result          \* _make_api_request: what the call returned or raised

match_vars == <<m_op, m_finding, m_section, m_read_ok, m_result>>

table_vars ==
    <<facilities_table, facility_writes, unmatched_findings, use_claude_for_unmatched>>

call_vars ==
    <<pc, facility_name, study_type, sections_data, image_data, facilities, facility,
      section_idx, report_sections, impressions, matched_findings, default_findings,
      modified_findings, finding_lines, processed_finding_indexes, finding_idx,
      categories, returned, calls, filed, classified, looked_up, normalized_lines,
      analysis>>

api_vars == <<api_pc, retry_count, attempts, slept, api_result>>

vars == <<impression_lookup, match_vars, table_vars, call_vars, api_vars>>

-----------------------------------------------------------------------------
(* Python values and str methods *)

\* Python's None, as returned by get_impression
None == "<None>"

\* str.lower(), per character
UpperToLower ==
    ("A" :> "a") @@ ("B" :> "b") @@ ("C" :> "c") @@ ("D" :> "d") @@ ("E" :> "e") @@
    ("F" :> "f") @@ ("G" :> "g") @@ ("H" :> "h") @@ ("I" :> "i") @@ ("J" :> "j") @@
    ("K" :> "k") @@ ("L" :> "l") @@ ("M" :> "m") @@ ("N" :> "n") @@ ("O" :> "o") @@
    ("P" :> "p") @@ ("Q" :> "q") @@ ("R" :> "r") @@ ("S" :> "s") @@ ("T" :> "t") @@
    ("U" :> "u") @@ ("V" :> "v") @@ ("W" :> "w") @@ ("X" :> "x") @@ ("Y" :> "y") @@
    ("Z" :> "z")

lower_char(c) == IF c \in DOMAIN UpperToLower THEN UpperToLower[c] ELSE c

lower(s) == [i \in 1..Len(s) |-> lower_char(s[i])]

\* the characters str.strip() and str.split() treat as whitespace
Whitespace == {" ", "\n", "\t"}

\* `p in f` for two str
IsSubstring(p, f) ==
    \E i \in 0..(Len(f) - Len(p)) : SubSeq(f, i + 1, i + Len(p)) = p

\* f.startswith(p)
StartsWith(f, p) == Len(p) <= Len(f) /\ SubSeq(f, 1, Len(p)) = p

\* str.split(): the maximal runs of non-whitespace characters, in order
RECURSIVE split_from(_, _, _)
split_from(s, i, cur) ==
    LET flush == IF cur = <<>> THEN <<>> ELSE <<cur>>
    IN  IF i > Len(s) THEN flush
        ELSE IF s[i] \in Whitespace THEN flush \o split_from(s, i + 1, <<>>)
        ELSE split_from(s, i + 1, Append(cur, s[i]))

split(s) == split_from(s, 1, <<>>)

\* str.strip()
RECURSIVE lstrip(_)
lstrip(s) == IF s # <<>> /\ Head(s) \in Whitespace THEN lstrip(Tail(s)) ELSE s

RECURSIVE rstrip(_)
rstrip(s) ==
    IF s # <<>> /\ s[Len(s)] \in Whitespace THEN rstrip(SubSeq(s, 1, Len(s) - 1)) ELSE s

strip(s) == rstrip(lstrip(s))

\* str.split('\n'): the pieces between the line feeds, empty ones included
RECURSIVE split_lines_from(_, _, _)
split_lines_from(s, i, cur) ==
    IF i > Len(s) THEN <<cur>>
    ELSE IF s[i] = "\n" THEN <<cur>> \o split_lines_from(s, i + 1, <<>>)
    ELSE split_lines_from(s, i + 1, Append(cur, s[i]))

split_lines(s) == split_lines_from(s, 1, <<>>)

\* "\n".join(lines)
RECURSIVE join_lines(_)
join_lines(lines) ==
    IF lines = <<>> THEN <<>>
    ELSE IF Len(lines) = 1 THEN lines[1]
    ELSE lines[1] \o <<"\n">> \o join_lines(Tail(lines))

\* in the histories: the call raised an exception
Failed == "<raised>"

\* the truth value of an opaque text or None
Truthy(x) == x # None /\ x # ""

\* set(words)
SetOf(seq) == {seq[i] : i \in 1..Len(seq)}

Min(a, b) == IF a <= b THEN a ELSE b

-----------------------------------------------------------------------------
(* SupabaseClient.get_impression *)

\* response.data of the select: the rows of the section, in table order
SectionRows(table, section_name) ==
    SelectSeq(table, LAMBDA r : r.section_name = section_name)

\* tier 1: the indexes of the rows whose pattern equals the finding, case-insensitively
ExactHits(data, finding) ==
    {i \in 1..Len(data) : lower(data[i].finding_pattern) = lower(finding)}

\* tier 1: the loop returns at the first hit in row order
FirstHit_last(exact) == CHOOSE i \in exact : \A j \in exact : j <= i

FirstHit(exact) == CHOOSE i \in exact : \A j \in exact : i <= j

\* tier 2, one row: the score of a pattern that is a substring of the finding
SubstringScore_no_bonus(pattern, finding_lower) == Len(pattern)

SubstringScore(pattern, finding_lower) ==
    Len(pattern) + (IF StartsWith(finding_lower, pattern) THEN 5 ELSE 0)

\* tier 2: the list `matches` of (score, impression_text), in row order
RECURSIVE SubstringMatches(_, _)
SubstringMatches(data, finding_lower) ==
    IF data = <<>> THEN <<>>
    ELSE LET pattern == lower(Head(data).finding_pattern)
             rest == SubstringMatches(Tail(data), finding_lower)
         IN  IF IsSubstring(pattern, finding_lower)
             THEN <<[score |-> SubstringScore(pattern, finding_lower),
                     impression_text |-> Head(data).impression_text]>> \o rest
             ELSE rest

\* tier 3, one row: len(common_words)
Overlap(pattern, finding_lower) ==
    Cardinality(SetOf(split(finding_lower)) \cap SetOf(split(lower(pattern))))

\* tier 3, one row: len(common_words) >= min(2, len(pattern_words))
Qualifies_two_words(pattern, finding_lower) == Overlap(pattern, finding_lower) >= 2

Qualifies(pattern, finding_lower) ==
    Overlap(pattern, finding_lower) >= Min(2, Len(split(lower(pattern))))

\* tier 3: the list `matches` of (len(common_words), impression_text), in row order
RECURSIVE WordMatches(_, _)
WordMatches(data, finding_lower) ==
    IF data = <<>> THEN <<>>
    ELSE LET rest == WordMatches(Tail(data), finding_lower)
         IN  IF Qualifies(Head(data).finding_pattern, finding_lower)
             THEN <<[score |-> Overlap(Head(data).finding_pattern, finding_lower),
                     impression_text |-> Head(data).impression_text]>> \o rest
             ELSE rest

\* matches.sort(reverse=True, key=score); matches[0][1]: the sort is stable, so the
\* first entry of the highest score comes first
BestMatch(matches) ==
    LET top == CHOOSE s \in {matches[i].score : i \in 1..Len(matches)} :
                   \A j \in 1..Len(matches) : matches[j].score <= s
        first == CHOOSE i \in 1..Len(matches) :
                   /\ matches[i].score = top
                   /\ \A j \in 1..(i - 1) : matches[j].score # top
    IN  matches[first].impression_text

\* get_impression(finding, section_name); read_ok = FALSE: the select raised,
\* and the except clause returns None
get_impression_words_first(read_ok, table, finding, section_name) ==
    LET data == SectionRows(table, section_name)
        finding_lower == lower(finding)
        exact == ExactHits(data, finding)
        partial == SubstringMatches(data, finding_lower)
        words == WordMatches(data, finding_lower)
    IN  IF ~read_ok THEN None
        ELSE IF data = <<>> THEN None
        ELSE IF exact # {} THEN data[FirstHit(exact)].impression_text
        ELSE IF words # <<>> THEN BestMatch(words)
        ELSE IF partial # <<>> THEN BestMatch(partial)
        ELSE None

get_impression(read_ok, table, finding, section_name) ==
    LET data == SectionRows(table, section_name)
        finding_lower == lower(finding)
        exact == ExactHits(data, finding)
        partial == SubstringMatches(data, finding_lower)
        words == WordMatches(data, finding_lower)
    IN  IF ~read_ok THEN None
        ELSE IF data = <<>> THEN None
        ELSE IF exact # {}
             THEN data[FirstHit(exact)].impression_text
        ELSE IF partial # <<>> THEN BestMatch(partial)
        ELSE IF words # <<>> THEN BestMatch(words)
        ELSE None

-----------------------------------------------------------------------------
(* The tables and collaborators generate_report reads *)

\* a raised exception, as the outcome of a call
Raised == [ok |-> FALSE, text |-> <<>>, str |-> ""]

\* a returned str: a text as characters, or an opaque text
ReturnedText(t) == [ok |-> TRUE, text |-> t, str |-> ""]

ReturnedStr(t) == [ok |-> TRUE, text |-> <<>>, str |-> t]

\* the facilities an admin has entered
FacilityRows ==
    << [id |-> 1, name |-> "North",
        technique_template_chest |-> "chest technique of North",
        technique_template_abdomen |-> "abdomen technique of North"],
       [id |-> 2, name |-> "South",
        technique_template_chest |-> "chest technique of South",
        technique_template_abdomen |-> "abdomen technique of South"] >>

\* table report_templates: default_findings is an ordered mapping category -> text
ReportTemplates ==
    << [section_name |-> "chest",
        default_findings |-> << [category |-> <<"a">>, text |-> <<"n", "1">>],
                                [category |-> <<"b">>, text |-> <<"n", "2">>] >>],
       [section_name |-> "abdomen_pelvis",
        default_findings |-> << [category |-> <<"b">>, text |-> <<"n", "3">>] >>],
       [section_name |-> "neck",
        default_findings |-> << [category |-> <<"b">>, text |-> <<"n", "4">>] >>] >>

\* get_report_template: <<the first row of the section>>, <<>> for None
get_report_template(section_name) ==
    LET data == SelectSeq(ReportTemplates, LAMBDA r : r.section_name = section_name)
    IN  IF data # <<>> THEN <<data[1]>> ELSE <<>>

\* the patterns stored while reports are generated
ReportPatterns ==
    << [finding_pattern |-> <<"x">>, section_name |-> "chest", impression_text |-> "I1"],
       [finding_pattern |-> <<"a">>, section_name |-> "chest", impression_text |-> "I2"] >>

\* what process_findings may return for the findings of a section: one finding per
\* line
NormalizedTexts(section_name, findings) ==
    IF section_name = "chest" /\ findings = <<"x">>
    THEN { <<" ", "A", " ", "x", "\n", "x", "\n">>,
           <<"a", " ", "b", "\n", "a">>,
           <<"x", "\n", "y">>,
           <<"\n">>,
           <<"b">> }
    ELSE IF section_name = "chest"
    THEN { <<"a">>, <<"y">> }
    ELSE { <<"b">>, <<"y">> }

\* what generate_impression may return (after its strip())
GeneratedImpressions == {"", "G1"}

\* what the model may answer to the image request of analyze_image
ImageAnalyses ==
    { <<>>,
      <<"N", "o", " ", "s", "i", "g", "n", "i", "f", "i", "c", "a", "n", "t", " ", "x">>,
      <<"n", "o", "d", "u", "l", "e">> }

\* the prefixes of the classifier's answer format
FindingPrefix == <<"F", "i", "n", "d", "i", "n", "g", ":">>

CategoryPrefix == <<"C", "a", "t", "e", "g", "o", "r", "y", ":">>

\* a category and a finding the classifier may invent
ForeignCategory == <<"z">>

ForeignFinding == <<"q">>

\* one entry of an answer: "Finding: f", "Category: c" and a blank line
AnswerEntry(f, c) ==
    <<FindingPrefix \o <<" ">> \o f, CategoryPrefix \o <<" ">> \o c, <<>>>>

RECURSIVE AnswerAllTo(_, _)
AnswerAllTo(findings, c) ==
    IF findings = <<>> THEN <<>>
    ELSE AnswerEntry(Head(findings), c) \o AnswerAllTo(Tail(findings), c)

RECURSIVE AnswerSpread(_, _, _)
AnswerSpread(findings, cats, i) ==
    IF i > Len(findings) THEN <<>>
    ELSE AnswerEntry(findings[i], cats[((i - 1) % Len(cats)) + 1])
             \o AnswerSpread(findings, cats, i + 1)

\* what the classifier may answer to a batch of findings and the allowed categories
ClassifierAnswers(findings, cats) ==
    IF findings = <<>> \/ cats = <<>> THEN { <<>> }
    ELSE
    { join_lines(AnswerAllTo(findings, c)) : c \in SetOf(cats) \cup {ForeignCategory} }
        \cup { join_lines(AnswerSpread(findings, cats, 1)),
               join_lines(AnswerEntry(findings[1], cats[1])
                              \o <<FindingPrefix \o <<" ">> \o findings[Len(findings)]>>),
               join_lines(AnswerEntry(ForeignFinding, cats[1])),
               join_lines(<<FindingPrefix \o <<" ">> \o findings[1],
                            CategoryPrefix \o <<" ">> \o ForeignCategory,
                            CategoryPrefix \o <<" ">> \o cats[1]>>),
               <<>> }

-----------------------------------------------------------------------------
(* ClaudeClient.categorize_findings: the parse of the answer *)

\* result[current_finding] = category: an existing key keeps its place
ResultSet(result, finding, category) ==
    IF \E i \in 1..Len(result) : result[i].finding = finding
    THEN [i \in 1..Len(result) |->
              IF result[i].finding = finding
              THEN [finding |-> finding, category |-> category]
              ELSE result[i]]
    ELSE Append(result, [finding |-> finding, category |-> category])

\* if category in categories: result[current_finding] = category
KeepAllowed_unfiltered(result, finding, category, allowed) ==
    ResultSet(result, finding, category)

KeepAllowed(result, finding, category, allowed) ==
    IF category \in SetOf(allowed) THEN ResultSet(result, finding, category) ELSE result

\* the loop over the lines; current = <<current_finding>>, <<>> for None
RECURSIVE parse_answer_keeps_finding(_, _, _, _)
parse_answer_keeps_finding(lines, current, result, allowed) ==
    IF lines = <<>> THEN result
    ELSE LET line == strip(Head(lines))
             category == strip(SubSeq(line, Len(CategoryPrefix) + 1, Len(line)))
         IN  IF StartsWith(line, FindingPrefix)
             THEN parse_answer_keeps_finding(Tail(lines),
                      <<strip(SubSeq(line, Len(FindingPrefix) + 1, Len(line)))>>,
                      result, allowed)
             ELSE IF StartsWith(line, CategoryPrefix) /\ current # <<>> /\ current[1] # <<>>
             THEN parse_answer_keeps_finding(Tail(lines),
                      IF category \in SetOf(allowed) THEN <<>> ELSE current,
                      KeepAllowed(result, current[1], category, allowed),
                      allowed)
             ELSE parse_answer_keeps_finding(Tail(lines), current, result, allowed)

RECURSIVE parse_answer(_, _, _, _)
parse_answer(lines, current, result, allowed) ==
    IF lines = <<>> THEN result
    ELSE LET line == strip(Head(lines))
         IN  IF StartsWith(line, FindingPrefix)
             THEN parse_answer(Tail(lines),
                      <<strip(SubSeq(line, Len(FindingPrefix) + 1, Len(line)))>>,
                      result, allowed)
             ELSE IF StartsWith(line, CategoryPrefix) /\ current # <<>> /\ current[1] # <<>>
             THEN parse_answer(Tail(lines), <<>>,
                      KeepAllowed(result, current[1],
                          strip(SubSeq(line, Len(CategoryPrefix) + 1, Len(line))), allowed),
                      allowed)
             ELSE parse_answer(Tail(lines), current, result, allowed)

\* categorize_findings, given the text of the answer: the mapping finding -> category
categorize_findings(answer, allowed) ==
    parse_answer(split_lines(strip(answer)), <<>>, <<>>, allowed)

-----------------------------------------------------------------------------
(* ReportGenerator.generate_report, one step per stage of the call *)

\* a line of the report; section_name is history: the section the line was written for
Line(kind, section_name, category, text, n, str) ==
    [kind |-> kind, section_name |-> section_name, category |-> category,
     text |-> text, n |-> n, str |-> str]

Literal(str, section_name) == Line("literal", section_name, <<>>, <<>>, 0, str)

Blank(section_name) == Line("literal", section_name, <<>>, <<>>, 0, "")

\* f"{category}: {text}"
CategoryLine(section_name, category, text) ==
    Line("category", section_name, category, text, 0, ": ")

\* f"{i}. {impression}"
ImpressionLine(i, impression) == Line("impression", "", <<>>, <<>>, i, impression)

\* a call to a collaborator, for the history
Call(op, section_name, finding, batch, study) ==
    [op |-> op, section_name |-> section_name, finding |-> finding, batch |-> batch,
     study_type |-> study]

\* list(default_findings.keys())
CategoriesOf(d) == [i \in 1..Len(d) |-> d[i].category]

\* d[category] = text on an ordered mapping: a key of the mapping keeps its place,
\* a new key goes to the end
SetItem_moves_to_end(d, category, text) ==
    SelectSeq(d, LAMBDA e : e.category # category)
        \o <<[category |-> category, text |-> text]>>

SetItem(d, category, text) ==
    IF \E i \in 1..Len(d) : d[i].category = category
    THEN [i \in 1..Len(d) |->
              IF d[i].category = category
              THEN [category |-> category, text |-> text]
              ELSE d[i]]
    ELSE Append(d, [category |-> category, text |-> text])

\* modified_findings = dict(default_findings) is a new dict: a write to
\* modified_findings does not reach default_findings
SharesTemplateDict_alias == TRUE

SharesTemplateDict == FALSE

\* next((f for f in facilities if f["name"] == facility_name), None)
FindFacility_or_first(rows, name) ==
    LET found == SelectSeq(rows, LAMBDA f : f.name = name)
    IN  IF found # <<>> THEN <<found[1]>>
        ELSE IF rows # <<>> THEN <<rows[1]>> ELSE <<>>

FindFacility(rows, name) ==
    LET found == SelectSeq(rows, LAMBDA f : f.name = name)
    IN  IF found # <<>> THEN <<found[1]>> ELSE <<>>

\* not findings or findings.strip() == ""
IsBlank_empty_only(findings) == findings = <<>>

IsBlank(findings) == findings = <<>> \/ strip(findings) = <<>>

\* the first category, in the template's order, whose name appears in the finding
\* (category.lower() in finding.lower()); 0 when there is none
FirstCategory_last(d, finding) ==
    LET hits == {i \in 1..Len(d) : IsSubstring(lower(d[i].category), lower(finding))}
    IN  IF hits = {} THEN 0 ELSE CHOOSE i \in hits : \A j \in hits : j <= i

FirstCategory(d, finding) ==
    LET hits == {i \in 1..Len(d) : IsSubstring(lower(d[i].category), lower(finding))}
    IN  IF hits = {} THEN 0 ELSE CHOOSE i \in hits : \A j \in hits : i <= j

\* [f for idx, f in enumerate(finding_lines) if idx not in processed_finding_indexes]
RECURSIVE Uncategorized(_, _, _)
Uncategorized(lines, processed, i) ==
    IF i > Len(lines) THEN <<>>
    ELSE (IF i \in processed THEN <<>> ELSE <<lines[i]>>)
             \o Uncategorized(lines, processed, i + 1)

\* the lines of the impression block
RECURSIVE ImpressionLines_from_zero(_, _)
ImpressionLines_from_zero(imps, i) ==
    IF i > Len(imps) THEN <<>>
    ELSE <<ImpressionLine(i - 1, imps[i])>> \o ImpressionLines_from_zero(imps, i + 1)

RECURSIVE ImpressionLines(_, _)
ImpressionLines(imps, i) ==
    IF i > Len(imps) THEN <<>>
    ELSE <<ImpressionLine(i, imps[i])>> \o ImpressionLines(imps, i + 1)

ImpressionBlock_always_unremarkable(imps) ==
    <<Literal("IMPRESSION:", "")>> \o ImpressionLines(imps, 1)
        \o <<Literal("Unremarkable exam.", "")>>

ImpressionBlock(imps) ==
    IF imps # <<>>
    THEN <<Literal("IMPRESSION:", "")>> \o ImpressionLines(imps, 1)
    ELSE <<Literal("IMPRESSION:", ""), Literal("Unremarkable exam.", "")>>

\* the lines "category: text" of the section, in the order of the mapping
FindingsBlock(section_name, d) ==
    [i \in 1..Len(d) |-> CategoryLine(section_name, d[i].category, d[i].text)]

-----------------------------------------------------------------------------
(* ClaudeClient._make_api_request *)

\* an exception raised by _make_api_request, with its message str(e)
RaisedError(message) == [ok |-> FALSE, text |-> message, str |-> ""]

\* max_retries = 3
max_retries_four == 3 + 1

max_retries == 3

\* 2 ** n
RECURSIVE Pow2(_)
Pow2(n) == IF n = 0 THEN 1 ELSE 2 * Pow2(n - 1)

\* str(response.status_code)
StatusChars ==
    (200 :> <<"2", "0", "0">>) @@ (429 :> <<"4", "2", "9">>) @@
    (500 :> <<"5", "0", "0">>) @@ (413 :> <<"4", "1", "3">>) @@
    (400 :> <<"4", "0", "0">>) @@ (401 :> <<"4", "0", "1">>)

\* f"API request failed with status code {response.status_code}: {response.text}"
StatusError(code, text) ==
    <<"A", "P", "I", " ", "r", "e", "q", "u", "e", "s", "t", " ", "f", "a", "i", "l",
      "e", "d", " ", "w", "i", "t", "h", " ", "s", "t", "a", "t", "u", "s", " ", "c",
      "o", "d", "e", " ">>
        \o StatusChars[code] \o <<":", " ">> \o text

\* "Request timed out after multiple retries"
TimedOutError ==
    <<"R", "e", "q", "u", "e", "s", "t", " ", "t", "i", "m", "e", "d", " ", "o", "u",
      "t", " ", "a", "f", "t", "e", "r", " ", "m", "u", "l", "t", "i", "p", "l", "e",
      " ", "r", "e", "t", "r", "i", "e", "s">>

\* "Failed to get a successful response after multiple retries"
ExhaustedError ==
    <<"F", "a", "i", "l", "e", "d", " ", "t", "o", " ", "g", "e", "t", " ", "a", " ",
      "s", "u", "c", "c", "e", "s", "s", "f", "u", "l", " ", "r", "e", "s", "p", "o",
      "n", "s", "e", " ", "a", "f", "t", "e", "r", " ", "m", "u", "l", "t", "i", "p",
      "l", "e", " ", "r", "e", "t", "r", "i", "e", "s">>

\* str(e) of an exception of requests.post that is no timeout: "Connection aborted"
ConnectionError ==
    <<"C", "o", "n", "n", "e", "c", "t", "i", "o", "n", " ", "a", "b", "o", "r", "t",
      "e", "d">>

\* response.text of a failed request: "overloaded"
Overloaded ==
    <<"o", "v", "e", "r", "l", "o", "a", "d", "e", "d">>

\* response.text of the failed image requests: "Payload Too Large", "Unsupported
\* media_type", "authentication_error"
PayloadTooLarge ==
    <<"P", "a", "y", "l", "o", "a", "d", " ", "T", "o", "o", " ", "L", "a", "r", "g",
      "e">>

UnsupportedMediaType ==
    <<"U", "n", "s", "u", "p", "p", "o", "r", "t", "e", "d", " ", "m", "e", "d", "i",
      "a", "_", "t", "y", "p", "e">>

AuthenticationError ==
    <<"a", "u", "t", "h", "e", "n", "t", "i", "c", "a", "t", "i", "o", "n", "_", "e",
      "r", "r", "o", "r">>

\* the outcomes of requests.post: a response with its status, a timeout, or
\* another exception
Response(code, text, body) == [kind |-> "response", code |-> code, text |-> text, body |-> body]

TimedOut == [kind |-> "timeout", code |-> 0, text |-> <<>>, body |-> ""]

OtherException == [kind |-> "exception", code |-> 0, text |-> ConnectionError, body |-> ""]

PostOutcomes ==
    { Response(200, <<>>, "json1"), Response(200, <<>>, "json2"),
      Response(429, Overloaded, ""), Response(500, Overloaded, ""),
      Response(413, PayloadTooLarge, ""),
      TimedOut, OtherException }

\* no call of _make_api_request has begun
ApiIdle ==
    /\ api_pc = "idle"
    /\ retry_count = 0
    /\ attempts = <<>>
    /\ slept = <<>>
    /\ api_result = Raised

\* lines 20-32: a call begins
MakeApiRequest ==
    /\ api_pc \in {"idle", "returned", "raised"}
    /\ api_pc' = "request"
    /\ retry_count' = 0
    /\ attempts' = <<>>
    /\ slept' = <<>>
    /\ api_result' = Raised
    /\ UNCHANGED <<impression_lookup, match_vars, table_vars, call_vars>>

\* lines 34-74: one turn of the while loop, given the outcome of requests.post
Post(outcome) ==
    /\ api_pc = "request"
    /\ retry_count < max_retries
    /\ attempts' = Append(attempts, outcome)
    /\ IF outcome.kind = "response" /\ outcome.code = 200
       THEN \* line 44
            /\ api_pc' = "returned"
            /\ api_result' = ReturnedStr(outcome.body)
            /\ UNCHANGED <<retry_count, slept>>
       ELSE IF outcome.kind = "response" /\ outcome.code = 429
       THEN \* lines 50-55, and line 74 when the loop ends
            /\ retry_count' = retry_count + 1
            /\ slept' = Append(slept, Min(Pow2(retry_count'), 60))
            /\ IF retry_count' < max_retries
               THEN /\ api_pc' = "request"
                    /\ UNCHANGED api_result
               ELSE /\ api_pc' = "raised"
                    /\ api_result' = RaisedError(ExhaustedError)
       ELSE IF outcome.kind = "timeout"
       THEN \* lines 59-65
            /\ retry_count' = retry_count + 1
            /\ IF retry_count' < max_retries
               THEN /\ slept' = Append(slept, 2)
                    /\ api_pc' = "request"
                    /\ UNCHANGED api_result
               ELSE /\ api_pc' = "raised"
                    /\ api_result' = RaisedError(TimedOutError)
                    /\ UNCHANGED slept
       ELSE \* lines 58 and 66-72: the exception of line 58 is raised inside the try
            \* block, so the clause `except Exception` catches it as it catches an
            \* exception of requests.post
            LET e == IF outcome.kind = "response"
                     THEN StatusError(outcome.code, outcome.text)
                     ELSE outcome.text
            IN  /\ retry_count' = retry_count + 1
                /\ IF retry_count' < max_retries
                   THEN /\ slept' = Append(slept, 2)
                        /\ api_pc' = "request"
                        /\ UNCHANGED api_result
                   ELSE /\ api_pc' = "raised"
                        /\ api_result' = RaisedError(e)
                        /\ UNCHANGED slept
    /\ UNCHANGED <<impression_lookup, match_vars, table_vars, call_vars>>

-----------------------------------------------------------------------------
(* ClaudeClient.analyze_image *)

\* messages of the exceptions _make_api_request may raise for the image request
ApiErrors ==
    { StatusError(413, PayloadTooLarge), StatusError(400, UnsupportedMediaType),
      StatusError(401, AuthenticationError), TimedOutError }

\* "The image was too large to process. Please use a smaller image (under 10MB)."
TooLargeMessage ==
    <<"T", "h", "e", " ", "i", "m", "a", "g", "e", " ", "w", "a", "s", " ", "t", "o",
      "o", " ", "l", "a", "r", "g", "e", " ", "t", "o", " ", "p", "r", "o", "c", "e",
      "s", "s", ".", " ", "P", "l", "e", "a", "s", "e", " ", "u", "s", "e", " ", "a",
      " ", "s", "m", "a", "l", "l", "e", "r", " ", "i", "m", "a", "g", "e", " ", "(",
      "u", "n", "d", "e", "r", " ", "1", "0", "M", "B", ")", ".">>

\* "The image format is not supported. Please use JPEG or PNG format."
UnsupportedMessage ==
    <<"T", "h", "e", " ", "i", "m", "a", "g", "e", " ", "f", "o", "r", "m", "a", "t",
      " ", "i", "s", " ", "n", "o", "t", " ", "s", "u", "p", "p", "o", "r", "t", "e",
      "d", ".", " ", "P", "l", "e", "a", "s", "e", " ", "u", "s", "e", " ", "J", "P",
      "E", "G", " ", "o", "r", " ", "P", "N", "G", " ", "f", "o", "r", "m", "a", "t",
      ".">>

\* "Unable to analyze image due to API authentication issues. Please check your API
\* key."
AuthenticationMessage ==
    <<"U", "n", "a", "b", "l", "e", " ", "t", "o", " ", "a", "n", "a", "l", "y", "z",
      "e", " ", "i", "m", "a", "g", "e", " ", "d", "u", "e", " ", "t", "o", " ", "A",
      "P", "I", " ", "a", "u", "t", "h", "e", "n", "t", "i", "c", "a", "t", "i", "o",
      "n", " ", "i", "s", "s", "u", "e", "s", ".", " ", "P", "l", "e", "a", "s", "e",
      " ", "c", "h", "e", "c", "k", " ", "y", "o", "u", "r", " ", "A", "P", "I", " ",
      "k", "e", "y", ".">>

\* f"Note: Image analysis was not possible due to technical limitations. Here is
\* general information about {study_type} CT scans:\n\n"
FallbackNote(study) ==
    <<"N", "o", "t", "e", ":", " ", "I", "m", "a", "g", "e", " ", "a", "n", "a", "l",
      "y", "s", "i", "s", " ", "w", "a", "s", " ", "n", "o", "t", " ", "p", "o", "s",
      "s", "i", "b", "l", "e", " ", "d", "u", "e", " ", "t", "o", " ", "t", "e", "c",
      "h", "n", "i", "c", "a", "l", " ", "l", "i", "m", "i", "t", "a", "t", "i", "o",
      "n", "s", ".", " ", "H", "e", "r", "e", " ", "i", "s", " ", "g", "e", "n", "e",
      "r", "a", "l", " ", "i", "n", "f", "o", "r", "m", "a", "t", "i", "o", "n", " ",
      "a", "b", "o", "u", "t", " ">>
        \o study \o
    <<" ", "C", "T", " ", "s", "c", "a", "n", "s", ":", "\n", "\n">>

\* f"Image analysis could not be completed. Error details: {str(e)[:100]}..."
NotCompleted(e) ==
    <<"I", "m", "a", "g", "e", " ", "a", "n", "a", "l", "y", "s", "i", "s", " ", "c",
      "o", "u", "l", "d", " ", "n", "o", "t", " ", "b", "e", " ", "c", "o", "m", "p",
      "l", "e", "t", "e", "d", ".", " ", "E", "r", "r", "o", "r", " ", "d", "e", "t",
      "a", "i", "l", "s", ":", " ">>
        \o SubSeq(e, 1, Min(100, Len(e))) \o <<".", ".", ".">>

\* the characters of a study type
StudyChars ==
    "Full Body" :>
        <<"F", "u", "l", "l", " ", "B", "o", "d", "y">>

\* what the model may answer to the text-only fallback request: "general"
GeneralInformation ==
    <<"g", "e", "n", "e", "r", "a", "l">>

\* the needles of the except clause
Needle413 == <<"4", "1", "3">>

NeedleTooLarge == <<"t", "o", "o", " ", "l", "a", "r", "g", "e">>

NeedleUnsupported == <<"u", "n", "s", "u", "p", "p", "o", "r", "t", "e", "d">>

NeedleMediaType == <<"m", "e", "d", "i", "a", "_", "t", "y", "p", "e">>

NeedleApiKey == <<"a", "p", "i", " ", "k", "e", "y">>

NeedleAuthentication == <<"a", "u", "t", "h", "e", "n", "t", "i", "c", "a", "t", "i", "o", "n">>

\* analyze_image(image_data, study_type), given the outcomes of its image request
\* and of its text-only fallback request: the except clause turns every exception
\* into a message
analyze_image_reraises(first, fallback, study) ==
    LET e == first.text
    IN  IF first.ok THEN ReturnedText(first.text)
        ELSE IF IsSubstring(Needle413, e) \/ IsSubstring(NeedleTooLarge, lower(e))
        THEN ReturnedText(TooLargeMessage)
        ELSE IF \/ IsSubstring(NeedleUnsupported, lower(e))
                \/ IsSubstring(NeedleMediaType, lower(e))
        THEN ReturnedText(UnsupportedMessage)
        ELSE IF \/ IsSubstring(NeedleApiKey, lower(e))
                \/ IsSubstring(NeedleAuthentication, lower(e))
        THEN ReturnedText(AuthenticationMessage)
        ELSE IF fallback.ok THEN ReturnedText(FallbackNote(study) \o fallback.text)
        ELSE first

analyze_image(first, fallback, study) ==
    LET e == first.text
    IN  IF first.ok THEN ReturnedText(first.text)
        ELSE IF IsSubstring(Needle413, e) \/ IsSubstring(NeedleTooLarge, lower(e))
        THEN ReturnedText(TooLargeMessage)
        ELSE IF \/ IsSubstring(NeedleUnsupported, lower(e))
                \/ IsSubstring(NeedleMediaType, lower(e))
        THEN ReturnedText(UnsupportedMessage)
        ELSE IF \/ IsSubstring(NeedleApiKey, lower(e))
                \/ IsSubstring(NeedleAuthentication, lower(e))
        THEN ReturnedText(AuthenticationMessage)
        ELSE IF fallback.ok THEN ReturnedText(FallbackNote(study) \o fallback.text)
        ELSE ReturnedText(NotCompleted(e))

\* the requests analyze_image made: the fallback is tried only when the image
\* request raised an error of no known kind
RequestsOf(first, fallback) ==
    IF first.ok \/ analyze_image(first, fallback, <<>>).text
                      \in {TooLargeMessage, UnsupportedMessage, AuthenticationMessage}
    THEN <<first>>
    ELSE <<first, fallback>>

-----------------------------------------------------------------------------
(* ReportGenerator.generate_report, continued *)

\* image_findings and not image_findings.lower().startswith("no significant")
NoSignificant == <<"n", "o", " ", "s", "i", "g", "n", "i", "f", "i", "c", "a", "n", "t">>

ImageNotes_case_sensitive(image_findings) ==
    IF image_findings # <<>> /\ ~StartsWith(image_findings, NoSignificant)
    THEN <<Blank(""), Literal("IMAGE ANALYSIS NOTES:", ""),
           Line("image", "", <<>>, image_findings, 0, "")>>
    ELSE <<>>

ImageNotes(image_findings) ==
    IF image_findings # <<>> /\ ~StartsWith(lower(image_findings), NoSignificant)
    THEN <<Blank(""), Literal("IMAGE ANALYSIS NOTES:", ""),
           Line("image", "", <<>>, image_findings, 0, "")>>
    ELSE <<>>

\* no operation of the matcher on its own has been recorded
MatchIdle ==
    /\ m_op = "none"
    /\ m_finding = <<>>
    /\ m_section = "chest"
    /\ m_read_ok = TRUE
    /\ m_result = None

TablesInit ==
    /\ facilities_table = FacilityRows
    /\ facility_writes = <<>>
    /\ unmatched_findings = <<>>

\* no call of generate_report has begun
CallIdle ==
    /\ pc = "idle"
    /\ facility_name = ""
    /\ study_type = ""
    /\ sections_data = <<>>
    /\ image_data = None
    /\ facilities = <<>>
    /\ facility = <<>>
    /\ section_idx = 1
    /\ report_sections = <<>>
    /\ impressions = <<>>
    /\ matched_findings = <<>>
    /\ default_findings = <<>>
    /\ modified_findings = <<>>
    /\ finding_lines = <<>>
    /\ processed_finding_indexes = {}
    /\ finding_idx = 1
    /\ categories = <<>>
    /\ returned = <<>>
    /\ calls = <<>>
    /\ filed = <<>>
    /\ classified = <<>>
    /\ looked_up = <<>>
    /\ normalized_lines = <<>>
    /\ analysis = <<>>

args_vars == <<facility_name, study_type, sections_data, image_data, facilities, facility>>

section_vars ==
    <<default_findings, modified_findings, finding_lines, processed_finding_indexes,
      finding_idx, categories>>

kept_vars ==
    <<impression_lookup, match_vars, facilities_table, facility_writes,
      use_claude_for_unmatched, api_vars>>

\* lines 23-32: the facility is looked up in the list get_facilities returns
Generate(name, study, sections, image, read_ok) ==
    /\ pc = "idle"
    /\ facility_name' = name
    /\ study_type' = study
    /\ sections_data' = sections
    /\ image_data' = image
    /\ calls' = <<Call("get_facilities", "", <<>>, <<>>, "")>>
    /\ IF ~read_ok
       THEN /\ pc' = "raised"
            /\ UNCHANGED <<facilities, facility, returned>>
       ELSE /\ facilities' = facilities_table
            /\ facility' = FindFacility(facilities_table, name)
            /\ IF facility' = <<>>
               THEN /\ returned' = <<Literal("Error: Facility not found", "")>>
                    /\ pc' = "returned"
               ELSE /\ returned' = <<>>
                    /\ pc' = "section"
    /\ UNCHANGED <<kept_vars, unmatched_findings, section_idx, report_sections,
                   impressions, matched_findings, section_vars, filed, classified,
                   looked_up, normalized_lines, analysis>>

\* lines 65 and 90: generate_report has no handler around process_findings and
\* generate_impression, so an exception they raise ends the call
Propagates_swallowed(outcome) == FALSE

Propagates(outcome) == ~outcome.ok

\* lines 26, 47 and 50: the technique fields are read from the dict that line 26
\* bound to the local name facility, whatever table facilities holds by then
HeldFacility_read_again(held, table, name) ==
    IF FindFacility(table, name) # <<>> THEN FindFacility(table, name) ELSE held

HeldFacility(held, table, name) == held

\* the title and the technique text of a section (lines 44-50)
SectionTitle(section_name) ==
    IF section_name = "chest"
    THEN "CT CHEST WITHOUT CONTRAST:"
    ELSE "CT ABDOMEN AND PELVIS WITHOUT CONTRAST"

SectionTechnique_chest_only(section_name, f) == f.technique_template_chest

SectionTechnique(section_name, f) ==
    IF section_name = "chest"
    THEN f.technique_template_chest
    ELSE f.technique_template_abdomen

\* lines 35-66: the next section is skipped, or its header is written and its
\* findings are normalized
BeginSection(template_ok, normalized) ==
    /\ pc = "section"
    /\ section_idx <= Len(sections_data)
    /\ LET section_name == sections_data[section_idx].section_name
           findings == sections_data[section_idx].findings
           template == get_report_template(section_name)
           asked == Call("get_report_template", section_name, <<>>, <<>>, "")
           sent == Call("process_findings", section_name, findings, <<>>, "")
       IN  IF IsBlank(findings)
           THEN /\ section_idx' = section_idx + 1
                /\ UNCHANGED <<pc, calls, report_sections, section_vars,
                               normalized_lines>>
           ELSE IF ~template_ok
           THEN /\ pc' = "raised"
                /\ calls' = Append(calls, asked)
                /\ UNCHANGED <<section_idx, report_sections, section_vars,
                               normalized_lines>>
           ELSE IF template = <<>>
           THEN /\ section_idx' = section_idx + 1
                /\ calls' = Append(calls, asked)
                /\ UNCHANGED <<pc, report_sections, section_vars, normalized_lines>>
           ELSE /\ report_sections' = report_sections \o
                       << Literal(SectionTitle(section_name), section_name),
                          Literal("TECHNIQUE:", section_name),
                          Line("technique", section_name, <<>>, <<>>, 0,
                               SectionTechnique(section_name,
                                   HeldFacility(facility, facilities_table,
                                                facility_name)[1])),
                          Blank(section_name),
                          Literal("FINDINGS:", section_name) >>
                /\ default_findings' = template[1].default_findings
                /\ modified_findings' = template[1].default_findings
                /\ calls' = calls \o <<asked, sent>>
                /\ processed_finding_indexes' = {}
                /\ finding_idx' = 1
                /\ categories' = <<>>
                /\ IF ~Propagates(normalized)
                   THEN /\ finding_lines' = split_lines(strip(normalized.text))
                        /\ pc' = "direct"
                   ELSE /\ finding_lines' = <<>>
                        /\ pc' = "raised"
                /\ normalized_lines' =
                       IF normalized.ok
                       THEN Append(normalized_lines,
                                   [section_name |-> section_name,
                                    lines |-> split_lines(strip(normalized.text))])
                       ELSE normalized_lines
                /\ UNCHANGED section_idx
    /\ UNCHANGED <<kept_vars, unmatched_findings, args_vars, impressions,
                   matched_findings, returned, filed, classified, looked_up, analysis>>

\* lines 76-77 and 110: modified_findings[category] = finding
File_keeps_first(section_name, category, finding) ==
    /\ modified_findings' =
           IF \E i \in 1..Len(filed) :
                  filed[i].section_name = section_name /\ filed[i].category = category
           THEN modified_findings
           ELSE SetItem(modified_findings, category, finding)
    /\ default_findings' = default_findings
    /\ filed' = Append(filed, [section_name |-> section_name, category |-> category,
                               finding |-> finding])

File(section_name, category, finding) ==
    /\ modified_findings' = SetItem(modified_findings, category, finding)
    /\ default_findings' =
           IF SharesTemplateDict
           THEN SetItem(default_findings, category, finding)
           ELSE default_findings
    /\ filed' = Append(filed, [section_name |-> section_name, category |-> category,
                               finding |-> finding])

\* lines 80-93 and 113-126: the impression of a filed finding is looked up, and
\* logged and synthesized when there is none
Resolve_synthesizes_always(section_name, finding, read_ok, log_ok, generated, then_pc) ==
    LET impression == get_impression(read_ok, impression_lookup, finding, section_name)
        looked == Call("get_impression", section_name, finding, <<>>, "")
        logged == Call("log_unmatched_finding", section_name, finding, <<>>, "")
        asked == Call("generate_impression", section_name, finding, <<>>, "")
        resolved(text) ==
            /\ impressions' = Append(impressions, text)
            /\ matched_findings' = Append(matched_findings, finding)
            /\ pc' = then_pc
        unresolved(to_pc) ==
            /\ pc' = to_pc
            /\ UNCHANGED <<impressions, matched_findings>>
        synthesized ==
            IF Truthy(impression) THEN None
            ELSE IF generated.ok THEN generated.str
            ELSE Failed
    IN  /\ looked_up' = Append(looked_up, [impression |-> impression, read_ok |-> read_ok,
                                           generated |-> synthesized])
        /\ IF Truthy(impression)
           THEN /\ calls' = Append(calls, looked)
                /\ resolved(impression)
                /\ UNCHANGED unmatched_findings
           ELSE /\ unmatched_findings' =
                       IF log_ok
                       THEN Append(unmatched_findings,
                                   [finding |-> finding, section_name |-> section_name])
                       ELSE unmatched_findings
                /\ IF FALSE
                   THEN /\ calls' = calls \o <<looked, logged>>
                        /\ unresolved(then_pc)
                   ELSE /\ calls' = calls \o <<looked, logged, asked>>
                        /\ IF Propagates(generated) THEN unresolved("raised")
                           ELSE IF Truthy(generated.str) THEN resolved(generated.str)
                           ELSE unresolved(then_pc)

Resolve(section_name, finding, read_ok, log_ok, generated, then_pc) ==
    LET impression == get_impression(read_ok, impression_lookup, finding, section_name)
        looked == Call("get_impression", section_name, finding, <<>>, "")
        logged == Call("log_unmatched_finding", section_name, finding, <<>>, "")
        asked == Call("generate_impression", section_name, finding, <<>>, "")
        resolved(text) ==
            /\ impressions' = Append(impressions, text)
            /\ matched_findings' = Append(matched_findings, finding)
            /\ pc' = then_pc
        unresolved(to_pc) ==
            /\ pc' = to_pc
            /\ UNCHANGED <<impressions, matched_findings>>
        synthesized ==
            IF Truthy(impression) \/ ~use_claude_for_unmatched THEN None
            ELSE IF generated.ok THEN generated.str
            ELSE Failed
    IN  /\ looked_up' = Append(looked_up, [impression |-> impression, read_ok |-> read_ok,
                                           generated |-> synthesized])
        /\ IF Truthy(impression)
           THEN /\ calls' = Append(calls, looked)
                /\ resolved(impression)
                /\ UNCHANGED unmatched_findings
           ELSE /\ unmatched_findings' =
                       IF log_ok
                       THEN Append(unmatched_findings,
                                   [finding |-> finding, section_name |-> section_name])
                       ELSE unmatched_findings
                /\ IF ~use_claude_for_unmatched
                   THEN /\ calls' = calls \o <<looked, logged>>
                        /\ unresolved(then_pc)
                   ELSE /\ calls' = calls \o <<looked, logged, asked>>
                        /\ IF Propagates(generated) THEN unresolved("raised")
                           ELSE IF Truthy(generated.str) THEN resolved(generated.str)
                           ELSE unresolved(then_pc)

\* lines 72-94: one finding line of the direct match
DirectMatch(read_ok, log_ok, generated) ==
    /\ pc = "direct"
    /\ finding_idx <= Len(finding_lines)
    /\ LET section_name == sections_data[section_idx].section_name
           finding == finding_lines[finding_idx]
           k == FirstCategory(default_findings, finding)
       IN  IF k = 0
           THEN UNCHANGED <<pc, calls, impressions, matched_findings, unmatched_findings,
                            default_findings, modified_findings,
                            processed_finding_indexes, filed, looked_up>>
           ELSE /\ File(section_name, default_findings[k].category, finding)
                /\ processed_finding_indexes' = processed_finding_indexes \cup {finding_idx}
                /\ Resolve(section_name, finding, read_ok, log_ok, generated, "direct")
    /\ finding_idx' = finding_idx + 1
    /\ UNCHANGED <<kept_vars, args_vars, section_idx, report_sections, finding_lines,
                   categories, returned, classified, normalized_lines, analysis>>

\* lines 97-105: the lines left over are sent to the classifier, once
Categorize(answer) ==
    /\ pc = "direct"
    /\ finding_idx > Len(finding_lines)
    /\ LET section_name == sections_data[section_idx].section_name
           uncategorized_findings ==
               Uncategorized(finding_lines, processed_finding_indexes, 1)
           allowed == CategoriesOf(default_findings)
       IN  IF Cardinality(processed_finding_indexes) < Len(finding_lines)
           THEN /\ calls' = Append(calls, Call("categorize_findings", section_name, <<>>,
                                               uncategorized_findings, ""))
                /\ IF answer.ok
                   THEN /\ categories' = categorize_findings(answer.text, allowed)
                        /\ classified' = Append(classified, answer.text)
                        /\ pc' = "apply"
                   ELSE /\ pc' = "raised"
                        /\ UNCHANGED <<categories, classified>>
           ELSE /\ pc' = "apply"
                /\ UNCHANGED <<calls, categories, classified>>
    /\ UNCHANGED <<kept_vars, unmatched_findings, args_vars, section_idx, report_sections,
                   impressions, matched_findings, default_findings, modified_findings,
                   finding_lines, processed_finding_indexes, finding_idx, returned,
                   filed, looked_up, normalized_lines, analysis>>

\* lines 108-126: one item of the classifier's mapping
ApplyCategory(read_ok, log_ok, generated) ==
    /\ pc = "apply"
    /\ categories # <<>>
    /\ LET section_name == sections_data[section_idx].section_name
           finding == Head(categories).finding
           suggested_category == Head(categories).category
       IN  IF suggested_category \in SetOf(CategoriesOf(modified_findings))
           THEN /\ File(section_name, suggested_category, finding)
                /\ Resolve(section_name, finding, read_ok, log_ok, generated, "apply")
           ELSE UNCHANGED <<pc, calls, impressions, matched_findings, unmatched_findings,
                            default_findings, modified_findings, filed, looked_up>>
    /\ categories' = Tail(categories)
    /\ UNCHANGED <<kept_vars, args_vars, section_idx, report_sections, finding_lines,
                   processed_finding_indexes, finding_idx, returned, classified,
                   normalized_lines, analysis>>

\* lines 129-132: the categories are written out, and the loop goes on
EmitFindings ==
    /\ pc = "apply"
    /\ categories = <<>>
    /\ report_sections' = report_sections
           \o FindingsBlock(sections_data[section_idx].section_name, modified_findings)
           \o <<Blank(sections_data[section_idx].section_name)>>
    /\ section_idx' = section_idx + 1
    /\ pc' = "section"
    /\ UNCHANGED <<kept_vars, unmatched_findings, args_vars, impressions,
                   matched_findings, section_vars, returned, calls, filed, classified,
                   looked_up, normalized_lines, analysis>>

\* lines 135-153: the impressions, the image notes, and the return; analyze_image
\* is called in no try block, so an exception it raised would end the call
Finish(first, fallback) ==
    /\ pc = "section"
    /\ section_idx > Len(sections_data)
    /\ LET analyzed == Truthy(image_data)
           image_findings == analyze_image(first, fallback, StudyChars[study_type])
           notes == IF analyzed THEN ImageNotes(image_findings.text) ELSE <<>>
       IN  /\ report_sections' = report_sections \o ImpressionBlock(impressions)
                                     \o (IF image_findings.ok THEN notes ELSE <<>>)
           /\ calls' = IF analyzed
                       THEN Append(calls, Call("analyze_image", "", <<>>, <<>>, study_type))
                       ELSE calls
           /\ analysis' = IF analyzed
                          THEN <<[requests |-> RequestsOf(first, fallback),
                                  returned |-> image_findings]>>
                          ELSE <<>>
           /\ IF analyzed /\ ~image_findings.ok
              THEN /\ pc' = "raised"
                   /\ UNCHANGED returned
              ELSE /\ pc' = "returned"
                   /\ returned' = report_sections'
    /\ UNCHANGED <<kept_vars, unmatched_findings, args_vars, section_idx, impressions,
                   matched_findings, section_vars, filed, classified, looked_up,
                   normalized_lines>>

\* the arguments of a call: sections_data as the items of the dict, in order
Entry(section_name, findings) == [section_name |-> section_name, findings |-> findings]

SectionsInputs ==
    { <<Entry("chest", <<"x">>)>>,
      <<Entry("chest", <<" ", "\n">>)>>,
      <<Entry("chest", <<>>), Entry("neck", <<"x">>)>>,
      <<Entry("chest", <<"w">>), Entry("abdomen_pelvis", <<"x">>)>>,
      <<Entry("abdomen_pelvis", <<"x">>), Entry("chest", <<" ", "\n">>)>>,
      <<Entry("head", <<"x">>), Entry("chest", <<"x">>)>> }

FacilityNames == {"North", "South", "Nowhere"}

StudyTypes == {"Full Body"}

ImageInputs == {None, "base64"}

Outcomes(texts) == {Raised} \cup {ReturnedText(t) : t \in texts}

AllNormalizedTexts ==
    UNION { UNION { NormalizedTexts(sections[k].section_name, sections[k].findings) :
                        k \in 1..Len(sections) } :
                sections \in SectionsInputs }

Generated == {Raised} \cup {ReturnedStr(t) : t \in GeneratedImpressions}

ImageOutcomes == {ReturnedText(t) : t \in ImageAnalyses} \cup {RaisedError(e) : e \in ApiErrors}

FallbackOutcomes == {Raised, ReturnedText(GeneralInformation)}

Init ==
    /\ impression_lookup = ReportPatterns
    /\ MatchIdle
    /\ TablesInit
    /\ use_claude_for_unmatched \in BOOLEAN
    /\ CallIdle
    /\ ApiIdle

Next ==
    \/ \E name \in FacilityNames, study \in StudyTypes, sections \in SectionsInputs,
          image \in ImageInputs, read_ok \in BOOLEAN :
           Generate(name, study, sections, image, read_ok)
    \/ \E template_ok \in BOOLEAN, normalized \in Outcomes(AllNormalizedTexts) :
           /\ section_idx <= Len(sections_data)
           /\ normalized.ok =>
                  normalized.text \in NormalizedTexts(sections_data[section_idx].section_name,
                                                      sections_data[section_idx].findings)
           /\ BeginSection(template_ok, normalized)
    \/ \E read_ok \in BOOLEAN, log_ok \in BOOLEAN, generated \in Generated :
           DirectMatch(read_ok, log_ok, generated)
    \/ \E answer \in Outcomes(ClassifierAnswers(
                         Uncategorized(finding_lines, processed_finding_indexes, 1),
                         CategoriesOf(default_findings))) :
           Categorize(answer)
    \/ \E read_ok \in BOOLEAN, log_ok \in BOOLEAN, generated \in Generated :
           ApplyCategory(read_ok, log_ok, generated)
    \/ EmitFindings
    \/ \E first \in ImageOutcomes, fallback \in FallbackOutcomes : Finish(first, fallback)

Spec == Init /\ [][Next]_vars

-----------------------------------------------------------------------------
(* The matcher on its own: the admin operations on impression_lookup and *)
(* get_impression                                                         *)

MaxPatterns == 2

Sections == {"chest", "abdomen_pelvis"}

\* finding patterns an admin enters (app.py accepts any non-empty text)
PatternTexts ==
    { <<"a", " ", "b">>, <<"A">>, <<"b">>, <<" ", "a">>, <<"a", " ", "a">>,
      <<" ">>, <<"b", " ", "a">>, <<"b", " ", "x">> }

\* findings looked up
FindingTexts == { <<"A", " ", "b">>, <<"a", "b">>, <<"b", " ", "a">> }

ImpressionTexts == {"I1", "I2"}

MatchInit ==
    /\ impression_lookup = <<>>
    /\ MatchIdle
    /\ TablesInit
    /\ use_claude_for_unmatched = TRUE
    /\ CallIdle
    /\ ApiIdle

\* add_impression_pattern: the insert appends a row and True is returned; when the
\* insert raises, nothing is stored and False is returned
add_impression_pattern(finding_pattern, section_name, impression_text, ok) ==
    /\ Len(impression_lookup) < MaxPatterns
    /\ impression_lookup' =
           IF ok
           THEN Append(impression_lookup,
                       [finding_pattern |-> finding_pattern,
                        section_name |-> section_name,
                        impression_text |-> impression_text])
           ELSE impression_lookup
    /\ m_op' = "add"
    /\ m_finding' = finding_pattern
    /\ m_section' = section_name
    /\ m_read_ok' = TRUE
    /\ m_result' = ok
    /\ UNCHANGED <<table_vars, call_vars, api_vars>>

\* delete_impression_pattern: the row of the given id (its position here) is removed
delete_impression_pattern(i) ==
    /\ i \in 1..Len(impression_lookup)
    /\ impression_lookup' =
           SubSeq(impression_lookup, 1, i - 1)
               \o SubSeq(impression_lookup, i + 1, Len(impression_lookup))
    /\ m_op' = "delete"
    /\ m_finding' = <<>>
    /\ m_section' = impression_lookup[i].section_name
    /\ m_read_ok' = TRUE
    /\ m_result' = TRUE
    /\ UNCHANGED <<table_vars, call_vars, api_vars>>

\* a call of get_impression
GetImpression(finding, section_name, read_ok) ==
    /\ m_op' = "get"
    /\ m_finding' = finding
    /\ m_section' = section_name
    /\ m_read_ok' = read_ok
    /\ m_result' = get_impression(read_ok, impression_lookup, finding, section_name)
    /\ UNCHANGED <<impression_lookup, table_vars, call_vars, api_vars>>

MatchNext ==
    \/ \E p \in PatternTexts, s \in Sections, t \in ImpressionTexts, ok \in BOOLEAN :
           add_impression_pattern(p, s, t, ok)
    \/ \E i \in 1..MaxPatterns : delete_impression_pattern(i)
    \/ \E f \in FindingTexts, s \in Sections, ok \in BOOLEAN : GetImpression(f, s, ok)

SpecMatch == MatchInit /\ [][MatchNext]_vars

-----------------------------------------------------------------------------
(* The admin operations on table facilities while generate_report is in flight *)

MaxFacilityWrites == 2

FacilityIds == {1, 2}

NewTechniques == {"new technique"}

FacilityWrite(op, facility_id, done) ==
    [op |-> op, facility_id |-> facility_id, done |-> done,
     in_flight |-> pc \in {"section", "direct", "apply"}]

\* supabase_client.py:64-76: the row with the id gets the two texts; the method
\* returns whether a row was written, False also when the request failed
update_facility_templates(facility_id, technique_template_chest, technique_template_abdomen, write_ok) ==
    /\ Len(facility_writes) < MaxFacilityWrites
    /\ LET hit == {i \in 1..Len(facilities_table) : facilities_table[i].id = facility_id}
       IN  /\ facilities_table' =
                  IF write_ok
                  THEN [i \in 1..Len(facilities_table) |->
                           IF i \in hit
                           THEN [facilities_table[i] EXCEPT
                                    !.technique_template_chest = technique_template_chest,
                                    !.technique_template_abdomen = technique_template_abdomen]
                           ELSE facilities_table[i]]
                  ELSE facilities_table
           /\ facility_writes' =
                  Append(facility_writes,
                         FacilityWrite("update", facility_id, write_ok /\ hit # {}))
    /\ UNCHANGED <<impression_lookup, match_vars, unmatched_findings,
                   use_claude_for_unmatched, call_vars, api_vars>>

\* supabase_client.py:54-62: the row with the id is deleted
delete_facility(facility_id, write_ok) ==
    /\ Len(facility_writes) < MaxFacilityWrites
    /\ LET hit == {i \in 1..Len(facilities_table) : facilities_table[i].id = facility_id}
       IN  /\ facilities_table' =
                  IF write_ok
                  THEN SelectSeq(facilities_table, LAMBDA row : row.id # facility_id)
                  ELSE facilities_table
           /\ facility_writes' =
                  Append(facility_writes,
                         FacilityWrite("delete", facility_id, write_ok /\ hit # {}))
    /\ UNCHANGED <<impression_lookup, match_vars, unmatched_findings,
                   use_claude_for_unmatched, call_vars, api_vars>>

\* the calls of generate_report the admin operations run against
FacilitySections == { <<Entry("chest", <<"w">>), Entry("neck", <<"x">>)>> }

FacilityInit ==
    /\ impression_lookup = ReportPatterns
    /\ MatchIdle
    /\ TablesInit
    /\ use_claude_for_unmatched = TRUE
    /\ CallIdle
    /\ ApiIdle

FacilityNext ==
    \/ \E facility_id \in FacilityIds, chest \in NewTechniques, abdomen \in NewTechniques,
          write_ok \in BOOLEAN :
           update_facility_templates(facility_id, chest, abdomen, write_ok)
    \/ \E facility_id \in FacilityIds, write_ok \in BOOLEAN :
           delete_facility(facility_id, write_ok)
    \/ \E name \in {"North"}, study \in StudyTypes, sections \in FacilitySections :
           Generate(name, study, sections, None, TRUE)
    \/ \E normalized \in Outcomes(AllNormalizedTexts) :
           /\ section_idx <= Len(sections_data)
           /\ normalized.ok =>
                  normalized.text \in NormalizedTexts(sections_data[section_idx].section_name,
                                                      sections_data[section_idx].findings)
           /\ BeginSection(TRUE, normalized)
    \/ DirectMatch(TRUE, TRUE, ReturnedStr("G1"))
    \/ \E answer \in Outcomes(ClassifierAnswers(
                         Uncategorized(finding_lines, processed_finding_indexes, 1),
                         CategoriesOf(default_findings))) :
           Categorize(answer)
    \/ ApplyCategory(TRUE, TRUE, ReturnedStr("G1"))
    \/ EmitFindings
    \/ Finish(Raised, Raised)

SpecFacility == FacilityInit /\ [][FacilityNext]_vars

-----------------------------------------------------------------------------
(* _make_api_request on its own: every turn of the loop ends, since requests.post *)
(* has a timeout and time.sleep returns                                          *)

ApiInit ==
    /\ impression_lookup = <<>>
    /\ MatchIdle
    /\ TablesInit
    /\ use_claude_for_unmatched = TRUE
    /\ CallIdle
    /\ ApiIdle

ApiNext ==
    \/ MakeApiRequest
    \/ \E outcome \in PostOutcomes : Post(outcome)

SpecApi == ApiInit /\ [][ApiNext]_vars /\ WF_vars(\E outcome \in PostOutcomes : Post(outcome))

-----------------------------------------------------------------------------
(* The claims about get_impression, stated on the state after a call whose *)
(* select succeeded                                                        *)

\* the last operation was a get_impression that read its rows
Got == m_op = "get" /\ m_read_ok

\* the rows the last get_impression read, and its finding in lower case
Rows == SectionRows(impression_lookup, m_section)

FindingLower == lower(m_finding)

PatternLower(i) == lower(Rows[i].finding_pattern)

\* the rows whose pattern equals the finding, is a substring of it, starts it
EqualRows == {i \in 1..Len(Rows) : PatternLower(i) = FindingLower}

SubstringRows == {i \in 1..Len(Rows) : IsSubstring(PatternLower(i), FindingLower)}

Anchored(i) == StartsWith(FindingLower, PatternLower(i))

\* the score the substring tier is said to give row i
SaidScore(i) == Len(PatternLower(i)) + (IF Anchored(i) THEN 5 ELSE 0)

\* the tokens of row i, the number it shares with the finding, and the rows that
\* are said to qualify in the token-overlap tier
Tokens(i) == split(PatternLower(i))

Shared(i) == Cardinality(SetOf(Tokens(i)) \cap SetOf(split(FindingLower)))

TokenRows == {i \in 1..Len(Rows) : Shared(i) >= Min(2, Len(Tokens(i)))}

\* row i is the first row of S, in store order, with the largest value of score
FirstBest(i, S, score(_)) ==
    /\ i \in S
    /\ \A j \in S : score(j) <= score(i)
    /\ \A j \in S : j < i => score(j) < score(i)

\* C1 as stated: the impression of EVERY stored pattern that equals the finding
\* case-insensitively is what get_impression returns.
C1_AnyEqualPatternReturned ==
    Got => \A i \in EqualRows : m_result = Rows[i].impression_text

\* C1 as amended: when a row read for the section equals the finding
\* case-insensitively, get_impression returns the impression_text of the FIRST such
\* row in store order, whatever substring or token-overlap candidates are stored.
C1_FirstEqualPatternReturned ==
    Got /\ EqualRows # {} =>
        \E i \in EqualRows :
            /\ \A j \in EqualRows : i <= j
            /\ m_result = Rows[i].impression_text

\* C1 witness: an equal pattern was returned although a row stored before it is a
\* substring candidate with another impression.
C1_Witness ==
    /\ Got
    /\ \E i \in EqualRows :
           /\ m_result = Rows[i].impression_text
           /\ \E j \in SubstringRows \ EqualRows :
                  j < i /\ Rows[j].impression_text # m_result

\* C2: the tiers are tried in the order exact, substring, token overlap, and the
\* first tier with a candidate decides: with an equal pattern the result is the
\* impression of an equal pattern; with a pattern that is a substring of the
\* finding the result is the impression of such a pattern, whatever the token
\* overlaps; the token-overlap tier decides only when the two others are empty.
C2_TierOrder ==
    Got =>
        /\ EqualRows # {} =>
               m_result \in {Rows[i].impression_text : i \in EqualRows}
        /\ SubstringRows # {} =>
               m_result \in {Rows[i].impression_text : i \in SubstringRows}
        /\ SubstringRows = {} /\ TokenRows # {} =>
               m_result \in {Rows[i].impression_text : i \in TokenRows}

\* C2 witness: a substring candidate was returned although a pattern that is no
\* substring shares more tokens with the finding and has another impression.
C2_Witness ==
    /\ Got
    /\ EqualRows = {}
    /\ \E i \in SubstringRows, j \in TokenRows \ SubstringRows :
           /\ m_result = Rows[i].impression_text
           /\ Rows[j].impression_text # m_result
           /\ \A k \in SubstringRows : Shared(j) > Shared(k)

\* C3: without an equal pattern, the substring tier returns the impression of the
\* first row, in store order, of the largest score len(pattern) + 5 if the finding
\* starts with the pattern; so an unanchored candidate is never returned when a
\* longer unanchored candidate exists.
C3_SubstringScore ==
    Got /\ EqualRows = {} /\ SubstringRows # {} =>
        \E i \in SubstringRows :
            /\ FirstBest(i, SubstringRows, SaidScore)
            /\ m_result = Rows[i].impression_text
            /\ ~Anchored(i) =>
                   \A j \in SubstringRows :
                       ~Anchored(j) => Len(PatternLower(j)) <= Len(PatternLower(i))

\* C3 witness: a shorter anchored pattern beat a longer unanchored one of another
\* impression.
C3_Witness ==
    /\ Got
    /\ EqualRows = {}
    /\ \E i \in SubstringRows, j \in SubstringRows :
           /\ Anchored(i) /\ ~Anchored(j)
           /\ Len(PatternLower(i)) < Len(PatternLower(j))
           /\ FirstBest(i, SubstringRows, SaidScore)
           /\ m_result = Rows[i].impression_text
           /\ Rows[j].impression_text # m_result

\* C4: without an equal pattern and without a substring candidate, a row qualifies
\* exactly when it shares at least min(2, number of its tokens) tokens with the
\* finding; the impression of the first qualifying row of the largest overlap is
\* returned, and None when no row qualifies.
C4_TokenOverlap ==
    Got /\ SubstringRows = {} =>
        IF TokenRows = {}
        THEN m_result = None
        ELSE \E i \in TokenRows :
                 /\ FirstBest(i, TokenRows, Shared)
                 /\ m_result = Rows[i].impression_text

\* C4 witness: a one-token pattern sharing one token was returned, while a pattern
\* of two different tokens sharing one token too did not qualify.
C4_Witness ==
    /\ Got
    /\ SubstringRows = {}
    /\ \E i \in TokenRows, j \in (1..Len(Rows)) \ TokenRows :
           /\ Len(Tokens(i)) = 1 /\ Shared(i) = 1
           /\ Len(Tokens(j)) = 2 /\ Cardinality(SetOf(Tokens(j))) = 2 /\ Shared(j) = 1
           /\ m_result = Rows[i].impression_text
           /\ Rows[j].impression_text # m_result

-----------------------------------------------------------------------------
(* The claims about generate_report *)

\* default_findings of the template of a section, as stored
TemplateOf(section_name) == get_report_template(section_name)[1].default_findings

HasTemplate(section_name) == get_report_template(section_name) # <<>>

\* the section the call is working on
CurrentSection == sections_data[section_idx].section_name

InSection == pc \in {"direct", "apply"}

\* the lines "category: text" written for a section
CategoryLinesOf(section_name) ==
    SelectSeq(report_sections,
              LAMBDA l : l.kind = "category" /\ l.section_name = section_name)

\* the text a mapping holds for a category
TextOf(d, category) == d[CHOOSE i \in 1..Len(d) : d[i].category = category].text

\* the writes to a category of a section, as positions of the history `filed`
FiledAt(section_name, category) ==
    {i \in 1..Len(filed) :
         filed[i].section_name = section_name /\ filed[i].category = category}

\* the findings text is empty or made of whitespace only
SaidBlank(findings) == \A i \in 1..Len(findings) : findings[i] \in Whitespace

\* the sections of sections_data the loop has gone past
Passed == {k \in 1..Len(sections_data) : k < section_idx}

\* an answer of the classifier named a category outside the allowed list
ForeignSuggested ==
    \E i \in 1..Len(classified) :
        IsSubstring(CategoryPrefix \o <<" ">> \o ForeignCategory, classified[i])

\* C5: no finding is ever filed under a category that is not a label of the
\* section's template: the mapping categorize_findings returns holds allowed
\* categories only, every write goes to a label of the template, and the FINDINGS
\* block of a section carries exactly the labels of its template.
C5_OnlyTemplateCategories ==
    /\ \A i \in 1..Len(categories) :
           categories[i].category \in SetOf(CategoriesOf(TemplateOf(CurrentSection)))
    /\ \A i \in 1..Len(filed) :
           filed[i].category \in SetOf(CategoriesOf(TemplateOf(filed[i].section_name)))
    /\ InSection =>
           SetOf(CategoriesOf(modified_findings))
               = SetOf(CategoriesOf(TemplateOf(CurrentSection)))
    /\ \A s \in Sections :
           CategoryLinesOf(s) # <<>> =>
               {CategoryLinesOf(s)[i].category : i \in 1..Len(CategoryLinesOf(s))}
                   = SetOf(CategoriesOf(TemplateOf(s)))

\* C5 witness: the classifier suggested a category outside the list, and the report
\* was returned with a FINDINGS block.
C5_Witness ==
    /\ pc = "returned"
    /\ ForeignSuggested
    /\ \E s \in Sections : CategoryLinesOf(s) # <<>>

\* C6 as stated: while a section is processed, a category a finding was filed
\* under holds the FIRST finding filed under it.
C6_FirstFiledKept ==
    InSection =>
        \A i \in 1..Len(filed) :
            /\ filed[i].section_name = CurrentSection
            /\ \A j \in FiledAt(CurrentSection, filed[i].category) : i <= j
            => TextOf(modified_findings, filed[i].category) = filed[i].finding

\* C6 as amended: the text of a category is replaced every time a finding is filed
\* under it, by the direct match or from the classifier's mapping, and the LAST
\* finding filed under it is the one it holds and the one the report shows.
C6_LastFiledKept ==
    /\ InSection =>
           \A i \in 1..Len(filed) :
               /\ filed[i].section_name = CurrentSection
               /\ \A j \in FiledAt(CurrentSection, filed[i].category) : j <= i
               => TextOf(modified_findings, filed[i].category) = filed[i].finding
    /\ \A k \in Passed, i \in 1..Len(filed) :
           /\ filed[i].section_name = sections_data[k].section_name
           /\ \A j \in FiledAt(filed[i].section_name, filed[i].category) : j <= i
           => \E n \in 1..Len(CategoryLinesOf(filed[i].section_name)) :
                  /\ CategoryLinesOf(filed[i].section_name)[n].category = filed[i].category
                  /\ CategoryLinesOf(filed[i].section_name)[n].text = filed[i].finding

\* C6 witness: two different findings were filed under one category of a section,
\* and the report was returned.
C6_Witness ==
    /\ pc = "returned"
    /\ \E i \in 1..Len(filed), j \in 1..Len(filed) :
           /\ i < j
           /\ filed[i].section_name = filed[j].section_name
           /\ filed[i].category = filed[j].category
           /\ filed[i].finding # filed[j].finding

\* C7: for every section that was processed, the FINDINGS block holds one line per
\* category of the template, in the template's order; a category no finding was
\* filed under carries the default text; and the template's default_findings is
\* the stored one all along.
C7_FindingsBlock ==
    /\ \A k \in Passed :
           LET s == sections_data[k].section_name
               block == CategoryLinesOf(s)
           IN  ~SaidBlank(sections_data[k].findings) /\ HasTemplate(s) =>
                   /\ Len(block) = Len(TemplateOf(s))
                   /\ \A n \in 1..Len(block) :
                          /\ block[n].category = TemplateOf(s)[n].category
                          /\ FiledAt(s, block[n].category) = {} =>
                                 block[n].text = TemplateOf(s)[n].text
    /\ InSection => default_findings = TemplateOf(CurrentSection)

\* C7 witness: a report was returned in which the first category of a section shows
\* a finding and the second one its default text.
C7_Witness ==
    /\ pc = "returned"
    /\ LET block == CategoryLinesOf("chest")
       IN  /\ Len(block) = 2
           /\ FiledAt("chest", block[1].category) # {}
           /\ FiledAt("chest", block[2].category) = {}
           /\ block[2].text = TemplateOf("chest")[2].text

\* C8: a section whose findings text is empty or whitespace-only leaves no line in
\* the report (so no "CT CHEST" title when it is the chest), no call to the
\* template store, the normalizer, the classifier, the matcher, the synthesizer or
\* the unmatched-finding log, no filed finding and no logged row.
C8_BlankSectionOmitted ==
    \A k \in 1..Len(sections_data) :
        LET s == sections_data[k].section_name
        IN  SaidBlank(sections_data[k].findings) =>
                /\ \A n \in 1..Len(report_sections) :
                       /\ report_sections[n].section_name # s
                       /\ s = "chest" =>
                              report_sections[n].str # "CT CHEST WITHOUT CONTRAST:"
                /\ \A n \in 1..Len(calls) : calls[n].section_name # s
                /\ \A n \in 1..Len(filed) : filed[n].section_name # s
                /\ \A n \in 1..Len(unmatched_findings) :
                       unmatched_findings[n].section_name # s

\* C8 witness: a report was returned for a request with a whitespace-only section
\* and a processed one.
C8_Witness ==
    /\ pc = "returned"
    /\ \E k \in 1..Len(sections_data) :
           /\ sections_data[k].findings # <<>>
           /\ SaidBlank(sections_data[k].findings)
    /\ \E k \in 1..Len(sections_data) :
           CategoryLinesOf(sections_data[k].section_name) # <<>>

\* the impression block of a returned report: from the line "IMPRESSION:" to the
\* end, or to the blank line that opens the image notes
ImpressionStart ==
    CHOOSE k \in 1..Len(returned) :
        returned[k].kind = "literal" /\ returned[k].str = "IMPRESSION:"

ImpressionEnd ==
    LET blanks == {e \in (ImpressionStart + 1)..Len(returned) :
                       returned[e].kind = "literal" /\ returned[e].str = ""}
    IN  IF blanks = {} THEN Len(returned)
        ELSE (CHOOSE e \in blanks : \A x \in blanks : e <= x) - 1

\* C9: a report returned with no impression collected has the impression block
\* "IMPRESSION:", "Unremarkable exam." and nothing else; with an impression
\* collected, the block holds no line "Unremarkable exam.".
C9_UnremarkableExam ==
    pc = "returned" /\ facility # <<>> =>
        LET block == SubSeq(returned, ImpressionStart, ImpressionEnd)
        IN  IF impressions = <<>>
            THEN /\ Len(block) = 2
                 /\ block[2].kind = "literal"
                 /\ block[2].str = "Unremarkable exam."
            ELSE /\ Len(block) = Len(impressions) + 1
                 /\ \A n \in 1..Len(block) : block[n].str # "Unremarkable exam."

\* C9 witness: a report was returned for which a finding was filed and no
\* impression was collected.
C9_Witness ==
    /\ pc = "returned"
    /\ filed # <<>>
    /\ impressions = <<>>

\* C10: when the facility name is the name of no facility of the list
\* get_facilities returned, the call returns the text "Error: Facility not found"
\* and has called nothing but get_facilities, whatever the sections and the image.
C10_FacilityNotFound ==
    /\ pc \in {"section", "direct", "apply", "returned"}
    /\ \A i \in 1..Len(facilities) : facilities[i].name # facility_name
    => /\ pc = "returned"
       /\ Len(returned) = 1
       /\ returned[1].kind = "literal"
       /\ returned[1].str = "Error: Facility not found"
       /\ Len(calls) = 1
       /\ calls[1].op = "get_facilities"
       /\ unmatched_findings = <<>>

\* C10 witness: the error text was returned for a request with findings and an
\* image.
C10_Witness ==
    /\ pc = "returned"
    /\ facility = <<>>
    /\ Truthy(image_data)
    /\ \E k \in 1..Len(sections_data) : ~SaidBlank(sections_data[k].findings)

-----------------------------------------------------------------------------
(* The claims about the image notes, the impressions and the failures of the *)
(* external service                                                          *)

\* the positions of the calls to a collaborator in the history
CallsOf(op) == {n \in 1..Len(calls) : calls[n].op = op}

\* generate_report returned a report for a facility it found
ReportReturned == pc = "returned" /\ facility # <<>>

\* the lines of the returned text that carry the header of the image notes
ImageHeaders ==
    {n \in 1..Len(returned) :
         returned[n].kind = "literal" /\ returned[n].str = "IMAGE ANALYSIS NOTES:"}

\* a text begins, case-insensitively, with "no significant"
BeginsNoSignificant(text) ==
    /\ Len(text) >= Len(NoSignificant)
    /\ lower(SubSeq(text, 1, Len(NoSignificant))) = NoSignificant

\* C11 as stated: whenever generate_report has returned for a request with an image,
\* it has called analyze_image exactly once.
C11_AnalyzedWheneverImage ==
    pc = "returned" /\ Truthy(image_data) => Cardinality(CallsOf("analyze_image")) = 1

\* C11 as amended: analyze_image is called only at the end of a call that found its
\* facility and whose sections raised nothing, and only for an image; then it is
\* called exactly once, with the study type, as the last call, and the text it
\* returned is the last line of the report under a blank line and the header
\* "IMAGE ANALYSIS NOTES:", unless it is empty or begins, case-insensitively, with
\* "no significant": then the report has no such header and no such line.
C11_ImageNotes ==
    /\ ~ReportReturned \/ ~Truthy(image_data) =>
           /\ CallsOf("analyze_image") = {}
           /\ analysis = <<>>
           /\ ImageHeaders = {}
    /\ ReportReturned /\ Truthy(image_data) =>
           /\ CallsOf("analyze_image") = {Len(calls)}
           /\ calls[Len(calls)].study_type = study_type
           /\ Len(analysis) = 1
           /\ LET text == analysis[1].returned.text
                  n == Len(returned)
              IN  IF text = <<>> \/ BeginsNoSignificant(text)
                  THEN /\ ImageHeaders = {}
                       /\ \A k \in 1..n : returned[k].kind # "image"
                  ELSE /\ ImageHeaders = {n - 1}
                       /\ returned[n - 2].kind = "literal" /\ returned[n - 2].str = ""
                       /\ returned[n].kind = "image" /\ returned[n].text = text
                       /\ \A k \in 1..(n - 1) : returned[k].kind # "image"

\* C11 witness: the analysis of an image began with "No significant", in upper case,
\* and the report was returned without the header.
C11_Witness ==
    /\ ReportReturned
    /\ Truthy(image_data)
    /\ Len(analysis) = 1
    /\ analysis[1].returned.text # <<>>
    /\ BeginsNoSignificant(analysis[1].returned.text)
    /\ ~StartsWith(analysis[1].returned.text, NoSignificant)
    /\ ImageHeaders = {}
    /\ \E k \in 1..Len(returned) : returned[k].kind = "category"

\* the impressions the findings resolved to, in the order of the lookups: the text
\* the matcher returned, or else the text the synthesizer returned
RECURSIVE ResolvedTexts(_)
ResolvedTexts(k) ==
    IF k > Len(looked_up) THEN <<>>
    ELSE (IF Truthy(looked_up[k].impression) THEN <<looked_up[k].impression>>
          ELSE IF looked_up[k].generated # Failed /\ Truthy(looked_up[k].generated)
          THEN <<looked_up[k].generated>>
          ELSE <<>>) \o ResolvedTexts(k + 1)

\* the numbered lines of the returned text
NumberedLines == SelectSeq(returned, LAMBDA l : l.kind = "impression")

\* C12: the impression block of a returned report holds one numbered line per
\* finding that resolved to an impression, through the matcher or the synthesizer:
\* the lines are numbered 1, 2, ... across the sections, in the order the findings
\* were resolved, and follow the line "IMPRESSION:" without a gap.
C12_ImpressionLines ==
    ReportReturned =>
        /\ Len(NumberedLines) = Len(ResolvedTexts(1))
        /\ \A i \in 1..Len(NumberedLines) :
               /\ NumberedLines[i].n = i
               /\ NumberedLines[i].str = ResolvedTexts(1)[i]
               /\ returned[ImpressionStart + i] = NumberedLines[i]
        /\ Len(looked_up) = Len(filed)
        /\ Len(matched_findings) = Len(NumberedLines)

\* C12 witness: a report was returned whose first impression came from the matcher
\* for a finding of the chest and whose second one came from the synthesizer for a
\* finding of another section.
C12_Witness ==
    /\ ReportReturned
    /\ Len(NumberedLines) = 2
    /\ \E i \in 1..Len(looked_up), j \in 1..Len(looked_up) :
           /\ i < j
           /\ filed[i].section_name = "chest" /\ filed[j].section_name # "chest"
           /\ Truthy(looked_up[i].impression)
           /\ ~Truthy(looked_up[j].impression) /\ looked_up[j].generated = NumberedLines[2].str

\* the normalizer raised: a call of process_findings gave no lines
NormalizeFailed == Cardinality(CallsOf("process_findings")) > Len(normalized_lines)

\* the synthesizer raised for a finding
SynthesisFailed == \E k \in 1..Len(looked_up) : looked_up[k].generated = Failed

\* C13: when process_findings or generate_impression raised, the call of
\* generate_report has ended in the exception at that very call and has returned
\* no text: no later call was made, and the finding the synthesizer failed for
\* gave no impression.
C13_FailureIsFatal ==
    /\ NormalizeFailed =>
           /\ pc = "raised"
           /\ returned = <<>>
           /\ calls[Len(calls)].op = "process_findings"
    /\ SynthesisFailed =>
           /\ pc = "raised"
           /\ returned = <<>>
           /\ calls[Len(calls)].op = "generate_impression"
           /\ looked_up[Len(looked_up)].generated = Failed
           /\ Len(impressions) = Len(ResolvedTexts(1))
    /\ pc = "raised" => returned = <<>>

\* C13 witness: the synthesizer raised in the second section, after the lines of the
\* first section had been written.
C13_Witness ==
    /\ SynthesisFailed
    /\ section_idx = 2
    /\ CategoryLinesOf(sections_data[1].section_name) # <<>>

-----------------------------------------------------------------------------
(* The claims about the lookups of generate_report *)

\* the k-th smallest element of a set of positions
Nth(S, k) == CHOOSE n \in S : Cardinality({x \in S : x < n}) = k - 1

\* the call at position n is a call of op for the same finding and section as call c
SameFinding(n, op, c) ==
    /\ n <= Len(calls)
    /\ calls[n].op = op
    /\ calls[n].section_name = c.section_name
    /\ calls[n].finding = c.finding

\* C14: a failed read of the pattern store is never taken for a no-match: a lookup
\* whose select raised ends the call of generate_report in that error, with no
\* call to the unmatched-finding log or to the synthesizer after it, while a
\* lookup that read no row for the section gives None and the call goes on.
C14_StoreFailureKeptApart ==
    \A k \in 1..Len(looked_up) :
        LET n == Nth(CallsOf("get_impression"), k)
        IN  /\ looked_up[k].read_ok
                   /\ SectionRows(impression_lookup, calls[n].section_name) = <<>>
               => looked_up[k].impression = None
            /\ ~looked_up[k].read_ok =>
                   /\ pc = "raised"
                   /\ n = Len(calls)
                   /\ looked_up[k].generated = None

\* C15: every finding filed under a category is looked up exactly once, in the order
\* of the filing; when the matcher returned an impression the next call is neither
\* the log nor the synthesizer; when it returned None the next call logs the finding,
\* and the call after that is the synthesizer for the finding exactly when
\* use_claude_for_unmatched is set; the log and the synthesizer are called nowhere
\* else, and a logged finding adds at most one row.
C15_LookupLogSynthesize ==
    /\ Cardinality(CallsOf("get_impression")) = Len(filed)
    /\ Len(looked_up) = Len(filed)
    /\ \A k \in 1..Len(filed) :
           LET n == Nth(CallsOf("get_impression"), k)
               c == calls[n]
           IN  /\ c.finding = filed[k].finding
               /\ c.section_name = filed[k].section_name
               /\ IF Truthy(looked_up[k].impression)
                  THEN /\ ~SameFinding(n + 1, "log_unmatched_finding", c)
                       /\ n + 1 <= Len(calls) =>
                              calls[n + 1].op \notin {"log_unmatched_finding",
                                                      "generate_impression"}
                  ELSE /\ SameFinding(n + 1, "log_unmatched_finding", c)
                       /\ IF use_claude_for_unmatched
                          THEN SameFinding(n + 2, "generate_impression", c)
                          ELSE n + 2 <= Len(calls) =>
                                   calls[n + 2].op # "generate_impression"
    /\ \A n \in CallsOf("log_unmatched_finding") :
           n > 1 /\ calls[n - 1].op = "get_impression"
    /\ \A n \in CallsOf("generate_impression") :
           n > 2 /\ calls[n - 1].op = "log_unmatched_finding"
    /\ Len(unmatched_findings) <= Cardinality(CallsOf("log_unmatched_finding"))
    /\ \A i \in 1..Len(unmatched_findings) :
           \E n \in CallsOf("log_unmatched_finding") :
               /\ calls[n].finding = unmatched_findings[i].finding
               /\ calls[n].section_name = unmatched_findings[i].section_name

\* C15 witness: with use_claude_for_unmatched off, a report was returned for which
\* one finding got its impression from the matcher and another one got none and
\* was logged.
C15_Witness ==
    /\ ReportReturned
    /\ ~use_claude_for_unmatched
    /\ unmatched_findings # <<>>
    /\ \E i \in 1..Len(looked_up), j \in 1..Len(looked_up) :
           /\ Truthy(looked_up[i].impression)
           /\ looked_up[j].read_ok /\ ~Truthy(looked_up[j].impression)

-----------------------------------------------------------------------------
(* The claims about _make_api_request *)

\* the requests of the call that were answered with status 200
Answered200 ==
    {i \in 1..Len(attempts) : attempts[i].kind = "response" /\ attempts[i].code = 200}

\* the call of _make_api_request is over
ApiDone == api_pc \in {"returned", "raised"}

\* C16, the states: a call issues at most 3 requests; it goes on only while it has
\* issued fewer than 3, none of them answered 200; it returns exactly on the first
\* answer 200, with the body of that answer; it raises exactly when 3 requests were
\* issued and none was answered 200.
C16_AtMostThreeRequests ==
    /\ Len(attempts) <= 3
    /\ api_pc = "request" => Answered200 = {} /\ Len(attempts) < 3
    /\ api_pc = "returned" =>
           /\ Answered200 = {Len(attempts)}
           /\ api_result.ok
           /\ api_result.str = attempts[Len(attempts)].body
    /\ api_pc = "raised" =>
           /\ Answered200 = {}
           /\ Len(attempts) = 3
           /\ ~api_result.ok

-----------------------------------------------------------------------------
(* The claims about a failed image analysis, the unassigned findings, the direct *)
(* match and the order of the blocks                                            *)

\* the section of sections_data at position k was processed: its findings are not
\* blank and its template exists
Processed(k) ==
    /\ ~SaidBlank(sections_data[k].findings)
    /\ HasTemplate(sections_data[k].section_name)

\* C17: a failure of the requests of analyze_image never ends generate_report in an
\* exception: analyze_image returns a text whatever its requests did, a message
\* when the image request failed, and the call returns the report with the blocks
\* of every processed section and the impression block, as collected before the
\* image was analyzed.
C17_ImageFailureNotFatal ==
    /\ pc = "raised" => analysis = <<>> /\ CallsOf("analyze_image") = {}
    /\ analysis # <<>> =>
           /\ analysis[1].returned.ok
           /\ ~analysis[1].requests[1].ok => analysis[1].returned.text # <<>>
           /\ ReportReturned
           /\ returned = report_sections
           /\ \A k \in 1..Len(sections_data) :
                  Processed(k) =>
                      LET s == sections_data[k].section_name
                      IN  /\ \E n \in 1..Len(returned) :
                                 returned[n].kind = "technique" /\ returned[n].section_name = s
                          /\ Len(CategoryLinesOf(s)) = Len(TemplateOf(s))
           /\ \E n \in 1..Len(returned) :
                  returned[n].kind = "literal" /\ returned[n].str = "IMPRESSION:"
           /\ Len(NumberedLines) = Len(impressions)

\* C17 witness: the image request and the text-only fallback request both failed,
\* and the report was returned with a processed section, an impression and the
\* message of analyze_image under the header of the image notes.
C17_Witness ==
    /\ ReportReturned
    /\ Len(analysis) = 1
    /\ Len(analysis[1].requests) = 2
    /\ ~analysis[1].requests[1].ok /\ ~analysis[1].requests[2].ok
    /\ \E k \in 1..Len(sections_data) : Processed(k)
    /\ NumberedLines # <<>>
    /\ ImageHeaders # {}
    /\ returned[Len(returned)].text = NotCompleted(analysis[1].requests[1].text)

\* a category label is a case-insensitive substring of a finding line
HasLabel(template, n, line) == IsSubstring(lower(template[n].category), lower(line))

Unlabelled(template, line) == \A n \in 1..Len(template) : ~HasLabel(template, n, line)

\* the answer the classifier gave for a section, as <<its lines>>; <<>> when it was
\* not asked or gave none
AnswerOf(section_name) ==
    LET asked == CallsOf("categorize_findings")
        hits == {k \in 1..Len(classified) :
                     calls[Nth(asked, k)].section_name = section_name}
    IN  IF hits = {} THEN <<>>
        ELSE <<split_lines(classified[CHOOSE k \in hits : TRUE])>>

\* the answer names an allowed category for the finding: a line "Finding: f"
\* followed by a line "Category: c" with c a label of the template
AssignedBy(answer, template, line) ==
    \E n \in 1..(Len(answer) - 1), c \in 1..Len(template) :
        /\ answer[n] = FindingPrefix \o <<" ">> \o line
        /\ answer[n + 1] = CategoryPrefix \o <<" ">> \o template[c].category

\* the answer names a category outside the template for the finding
RefusedBy(answer, template, line) ==
    \E n \in 1..(Len(answer) - 1) :
        /\ answer[n] = FindingPrefix \o <<" ">> \o line
        /\ StartsWith(answer[n + 1], CategoryPrefix)
        /\ \A c \in 1..Len(template) :
               answer[n + 1] # CategoryPrefix \o <<" ">> \o template[c].category

\* the finding lines of the sections normalized so far that stay unassigned: no
\* label of the template in the line, and no allowed category for it in the answer
\* of the classifier
Unassigned(e, i) ==
    LET template == TemplateOf(normalized_lines[e].section_name)
        line == normalized_lines[e].lines[i]
        answer == AnswerOf(normalized_lines[e].section_name)
    IN  /\ Unlabelled(template, line)
        /\ answer # <<>> => ~AssignedBy(answer[1], template, line)

\* C18: a finding line without a category label for which the classifier named no
\* category, or only one outside the template, is never filed: it is on no category
\* line of its section, it is the argument of no call to the matcher, the log or
\* the synthesizer for its section (so it gives no impression), and it is no row of
\* the unmatched-finding log.
C18_UnassignedStaysOut ==
    \A e \in 1..Len(normalized_lines) :
        \A i \in 1..Len(normalized_lines[e].lines) :
            Unassigned(e, i) =>
                LET s == normalized_lines[e].section_name
                    line == normalized_lines[e].lines[i]
                IN  /\ \A n \in 1..Len(filed) :
                           ~(filed[n].section_name = s /\ filed[n].finding = line)
                    /\ \A n \in 1..Len(report_sections) :
                           ~(/\ report_sections[n].kind = "category"
                             /\ report_sections[n].section_name = s
                             /\ report_sections[n].text = line)
                    /\ InSection /\ CurrentSection = s =>
                           \A n \in 1..Len(modified_findings) :
                               modified_findings[n].text # line
                    /\ \A n \in 1..Len(calls) :
                           ~(/\ calls[n].op \in {"get_impression", "log_unmatched_finding",
                                                 "generate_impression"}
                             /\ calls[n].section_name = s
                             /\ calls[n].finding = line)
                    /\ \A n \in 1..Len(unmatched_findings) :
                           ~(/\ unmatched_findings[n].section_name = s
                             /\ unmatched_findings[n].finding = line)

\* C18 witness: a report was returned for which the classifier named a category
\* outside the template for one finding line and no category for another one.
C18_Witness ==
    /\ ReportReturned
    /\ \E e \in 1..Len(normalized_lines) :
           LET template == TemplateOf(normalized_lines[e].section_name)
               answer == AnswerOf(normalized_lines[e].section_name)
               lines == normalized_lines[e].lines
           IN  /\ answer # <<>>
               /\ \E i \in 1..Len(lines) :
                      Unassigned(e, i) /\ RefusedBy(answer[1], template, lines[i])
               /\ \E i \in 1..Len(lines) :
                      /\ Unassigned(e, i)
                      /\ lines[i] # <<>>
                      /\ ~RefusedBy(answer[1], template, lines[i])

\* the first category, in the template's order, whose label is in the line; 0 when
\* the line has no label
SaidCategory(template, line) ==
    IF Unlabelled(template, line) THEN 0
    ELSE CHOOSE n \in 1..Len(template) :
             /\ HasLabel(template, n, line)
             /\ \A j \in 1..(n - 1) : ~HasLabel(template, j, line)

\* the filings the direct match is said to make for the lines i..upto of a section
RECURSIVE SaidFilings(_, _, _, _, _)
SaidFilings(section_name, template, lines, i, upto) ==
    IF i > upto THEN <<>>
    ELSE (IF SaidCategory(template, lines[i]) = 0 THEN <<>>
          ELSE <<[section_name |-> section_name,
                  category |-> template[SaidCategory(template, lines[i])].category,
                  finding |-> lines[i]]>>)
             \o SaidFilings(section_name, template, lines, i + 1, upto)

\* the lines without a label, in order
RECURSIVE SaidLeftOver(_, _, _)
SaidLeftOver(template, lines, i) ==
    IF i > Len(lines) THEN <<>>
    ELSE (IF Unlabelled(template, lines[i]) THEN <<lines[i]>> ELSE <<>>)
             \o SaidLeftOver(template, lines, i + 1)

\* the filings made for a section, in order
FiledOf(section_name) == SelectSeq(filed, LAMBDA r : r.section_name = section_name)

\* the call is inside the section of the entry e of normalized_lines
Current(e) ==
    /\ pc \in {"direct", "apply", "raised"}
    /\ section_idx <= Len(sections_data)
    /\ CurrentSection = normalized_lines[e].section_name

\* the lines of entry e the direct match has gone through
DirectDone(e) ==
    IF Current(e)
    THEN Min(finding_idx - 1, Len(normalized_lines[e].lines))
    ELSE Len(normalized_lines[e].lines)

\* C19: the direct match files each finding line at most once, under the first
\* category in the template's order whose label is a case-insensitive substring of
\* the line, in the order of the lines, and files nothing else; the classifier is
\* called at most once for a section, with exactly the lines that have no label,
\* and not at all when there is no such line.
C19_DirectMatch ==
    \A e \in 1..Len(normalized_lines) :
        LET s == normalized_lines[e].section_name
            lines == normalized_lines[e].lines
            template == TemplateOf(s)
            said == SaidFilings(s, template, lines, 1, DirectDone(e))
            asked == {n \in CallsOf("categorize_findings") : calls[n].section_name = s}
        IN  /\ Len(FiledOf(s)) >= Len(said)
            /\ \A n \in 1..Len(said) : FiledOf(s)[n] = said[n]
            /\ Current(e) /\ pc = "direct" =>
                   /\ Len(FiledOf(s)) = Len(said)
                   /\ asked = {}
                   /\ processed_finding_indexes =
                          {i \in 1..DirectDone(e) : ~Unlabelled(template, lines[i])}
            /\ Cardinality(asked) <= 1
            /\ \A n \in asked :
                   /\ calls[n].batch = SaidLeftOver(template, lines, 1)
                   /\ calls[n].batch # <<>>

\* C19 witness: a report was returned for a section with a line that carries its
\* label in upper case and a line without a label: the first one was filed by the
\* direct match and the classifier was asked about the second one alone.
C19_Witness ==
    /\ ReportReturned
    /\ \E e \in 1..Len(normalized_lines) :
           LET s == normalized_lines[e].section_name
               lines == normalized_lines[e].lines
               template == TemplateOf(s)
           IN  /\ \E i \in 1..Len(lines) :
                      /\ SaidCategory(template, lines[i]) # 0
                      /\ ~IsSubstring(template[SaidCategory(template, lines[i])].category,
                                      lines[i])
               /\ \E n \in CallsOf("categorize_findings") :
                      /\ calls[n].section_name = s
                      /\ Len(calls[n].batch) = 1
                      /\ Len(lines) = 2

\* the title and the technique text a section is said to get
SaidTitle(section_name) ==
    IF section_name = "chest"
    THEN "CT CHEST WITHOUT CONTRAST:"
    ELSE "CT ABDOMEN AND PELVIS WITHOUT CONTRAST"

SaidTechnique(section_name) ==
    IF section_name = "chest"
    THEN facility[1].technique_template_chest
    ELSE facility[1].technique_template_abdomen

\* the blocks of the processed sections from position k on, with the category
\* lines the report has for each
RECURSIVE SaidSectionBlocks(_)
SaidSectionBlocks(k) ==
    IF k > Len(sections_data) THEN <<>>
    ELSE LET s == sections_data[k].section_name
         IN  (IF Processed(k)
              THEN << Literal(SaidTitle(s), s),
                      Literal("TECHNIQUE:", s),
                      Line("technique", s, <<>>, <<>>, 0, SaidTechnique(s)),
                      Blank(s),
                      Literal("FINDINGS:", s) >>
                       \o CategoryLinesOf(s) \o <<Blank(s)>>
              ELSE <<>>) \o SaidSectionBlocks(k + 1)

\* the image notes of the returned text: its last three lines when it has the
\* header
SaidImageBlock ==
    IF ImageHeaders = {} THEN <<>>
    ELSE SubSeq(returned, Len(returned) - 2, Len(returned))

\* C20: a report returned for a known facility is made of the blocks of the
\* processed sections in the order of sections_data, each one the title, the line
\* "TECHNIQUE:", the facility's technique text of the section ("chest": the chest
\* title and field, any other section: the abdomen title and field), a blank line,
\* the line "FINDINGS:", the category lines and a blank line; then one block
\* "IMPRESSION:"; then, last, the image notes when there are any.
C20_BlockOrder ==
    ReportReturned =>
        /\ returned = SaidSectionBlocks(1)
                          \o SubSeq(returned, ImpressionStart, ImpressionEnd)
                          \o SaidImageBlock
        /\ Cardinality({n \in 1..Len(returned) :
                            returned[n].kind = "literal" /\ returned[n].str = "IMPRESSION:"})
               = 1
        /\ \A n \in (ImpressionStart + 1)..ImpressionEnd :
               \/ returned[n].kind = "impression"
               \/ returned[n].kind = "literal" /\ returned[n].str = "Unremarkable exam."
        /\ ImageHeaders # {} =>
               /\ ImageHeaders = {Len(returned) - 1}
               /\ ImpressionEnd = Len(returned) - 3

\* C20 witness: a report was returned with the blocks of two sections, the second
\* one not the chest, a numbered impression and the image notes.
C20_Witness ==
    /\ ReportReturned
    /\ Len(sections_data) = 2
    /\ Processed(1) /\ Processed(2)
    /\ sections_data[2].section_name # "chest"
    /\ NumberedLines # <<>>
    /\ ImageHeaders # {}

-----------------------------------------------------------------------------
(* The claims about a status that is no rate limit, the facility read at the    *)
(* start of a call, the texts of the category lines, the displayed findings and *)
(* the token-overlap tier                                                       *)

\* the requests of the call that were answered with a status other than 200 and 429
OtherStatus ==
    {i \in 1..Len(attempts) :
        attempts[i].kind = "response" /\ attempts[i].code \notin {200, 429}}

\* the requests of the call before request i that make the call sleep
SleptBefore(i) ==
    {j \in 1..(i - 1) :
        \/ attempts[j].kind = "timeout"
        \/ attempts[j].kind = "response" /\ attempts[j].code = 429}

\* C21: a request answered with a status that is neither 200 nor 429 is the last
\* request of its call: the call has raised, with the error of that status, and has
\* not slept after the answer.
C21_OtherStatusRaisesAtOnce ==
    \A i \in OtherStatus :
        /\ i = Len(attempts)
        /\ api_pc = "raised"
        /\ api_result = RaisedError(StatusError(attempts[i].code, attempts[i].text))
        /\ Len(slept) = Cardinality(SleptBefore(i))

\* the facility_writes that ran while the call of generate_report was in flight and
\* changed the row of the facility the call had found
WritesInFlight(op) ==
    {n \in 1..Len(facility_writes) :
        /\ facility_writes[n].op = op
        /\ facility_writes[n].done
        /\ facility_writes[n].in_flight
        /\ facility # <<>>
        /\ facility_writes[n].facility_id = facility[1].id}

\* the row with the name in the list that get_facilities returned to the call
ReadAtStart ==
    facilities[CHOOSE i \in 1..Len(facilities) :
                   /\ facilities[i].name = facility_name
                   /\ \A j \in 1..(i - 1) : facilities[j].name # facility_name]

\* C22: whatever the admin operations did to table facilities since the call read
\* it, every technique line of the report carries the text that the row read at the
\* start of the call has for the section, and a call that found its facility does
\* not return "Error: Facility not found".
C22_FacilityHeld ==
    facility # <<>> =>
        /\ \A n \in 1..Len(report_sections) :
               report_sections[n].kind = "technique" =>
                   report_sections[n].str =
                       IF report_sections[n].section_name = "chest"
                       THEN ReadAtStart.technique_template_chest
                       ELSE ReadAtStart.technique_template_abdomen
        /\ pc = "returned" =>
               /\ returned = report_sections
               /\ \A n \in 1..Len(returned) : returned[n].str # "Error: Facility not found"

\* C22 witness: a report was returned with the technique lines of two sections,
\* the second one with the text read at the start; while the call was in flight the
\* facility's templates were updated and then the facility was deleted.
C22_Witness ==
    /\ pc = "returned"
    /\ Cardinality({n \in 1..Len(returned) : returned[n].kind = "technique"}) = 2
    /\ \E u \in WritesInFlight("update"), d \in WritesInFlight("delete") : u < d
    /\ FindFacility(facilities_table, facility_name) = <<>>
    /\ \E n \in 1..Len(returned) :
           /\ returned[n].kind = "technique"
           /\ returned[n].section_name = "neck"
           /\ returned[n].str = "abdomen technique of North"

\* the finding lines the normalizer returned for a section
LinesOf(section_name) ==
    UNION {SetOf(normalized_lines[e].lines) :
               e \in {i \in 1..Len(normalized_lines) :
                          normalized_lines[i].section_name = section_name}}

\* C23: the text of every category line of a section is the template's default
\* text of the category or one of the finding lines the normalizer returned for the
\* section, and only such lines are written to a category, looked up, logged as
\* unmatched or sent to the synthesizer.
C23_OnlyNormalizedLines ==
    /\ \A n \in 1..Len(report_sections) :
           report_sections[n].kind = "category" =>
               \/ report_sections[n].text =
                      TextOf(TemplateOf(report_sections[n].section_name),
                             report_sections[n].category)
               \/ report_sections[n].text \in LinesOf(report_sections[n].section_name)
    /\ \A n \in 1..Len(filed) : filed[n].finding \in LinesOf(filed[n].section_name)
    /\ \A n \in CallsOf("get_impression") \cup CallsOf("log_unmatched_finding")
                    \cup CallsOf("generate_impression") :
           calls[n].finding \in LinesOf(calls[n].section_name)

\* the k-th finding that was filed gave an impression, through the matcher or the
\* synthesizer
GaveImpression(k) ==
    \/ Truthy(looked_up[k].impression)
    \/ looked_up[k].generated # Failed /\ Truthy(looked_up[k].generated)

\* the k-th finding that was filed is the text of a category line of its section in
\* the returned text
Displayed(k) ==
    \E n \in 1..Len(returned) :
        /\ returned[n].kind = "category"
        /\ returned[n].section_name = filed[k].section_name
        /\ returned[n].text = filed[k].finding

\* C24: in a returned report every finding that gave a numbered impression line is
\* the text of a category line of the FINDINGS block of its section.
C24_ImpressionsOfDisplayed ==
    ReportReturned =>
        \A k \in 1..Len(looked_up) : GaveImpression(k) => Displayed(k)

\* C25: when get_impression returns an impression from the token-overlap tier (no
\* stored pattern is a substring of the finding), a pattern with that impression
\* shares at least one token with the finding; when no pattern shares a token with
\* the finding, a whitespace-only pattern included, the result is None.
C25_SharedToken ==
    Got /\ SubstringRows = {} /\ m_result # None =>
        \E i \in 1..Len(Rows) :
            /\ Shared(i) >= 1
            /\ m_result = Rows[i].impression_text

====
